---- MODULE Spec2Model ----
(***************************************************************************)
(* The CV / gap-analysis response splitter of execution/generate_tailored_cv.py *)
(* (main, the "3-layer gap analysis defense").  A text is a sequence of      *)
(* characters; an ASCII character is the one-character string, a non-ASCII   *)
(* character is named ("a_acute", "I_dot", ...).  Positions are 0-based, as  *)
(* in the Python source.  The same module holds the web service of         *)
(* webapp/main.py: its endpoints, its files and the generate-all stream,    *)
(* and the repository cache of execution/fetch_github_repos.py.             *)
(***************************************************************************)
EXTENDS Integers, Sequences, FiniteSets, TLC

VARIABLES
    pc,            \* position in main: "layer12", "layer3", "save", "done"; "raised" after an exception
    tailored_cv,   \* the raw LLM response (generate_tailored_cv's return value)
    cv_content,    \* main's local cv_content
    gap_analysis,  \* main's local gap_analysis
    split_method,  \* main's local split_method
    scanned,       \* what Layer 3 read: cv_content, gap_analysis, split_method after Layers 1-2
    out_cv,        \* the file tailored_cv.md: <<>> while not written, <<text>> once written
    out_gaps,      \* the file cv_gaps.txt: <<>> while not written, <<text>> once written
    fed_from,      \* <<>> in a first run; <<method>> of the run whose gap analysis is this run's input
    files,         \* web service: the files of .tmp/job_applications, by name
    req,           \* web service: the requests being served, by worker thread
    calls,         \* web service: the number of requests received so far
    github         \* fetch_github_repos.py: the cache file, the clock and the running call

\* the variables of the web service
web == <<files, req, calls>>

vars == <<pc, tailored_cv, cv_content, gap_analysis, split_method, scanned, out_cv, out_gaps,
          fed_from, web, github>>

\* ------------------------------------------------------------------ bounds

\* an input is the concatenation of at most MaxChunks chunks
MaxChunks == 3

\* length of the run of dotted capital I characters used as a chunk
DottedRunLen == 14

\* ------------------------------------------------------- string literals

\* "---GAP_ANALYSIS_SEPARATOR---"
DETERMINISTIC_SEPARATOR ==
    <<"-", "-", "-", "G", "A", "P", "_", "A", "N", "A", "L", "Y", "S", "I", "S", "_", "S", "E",
      "P", "A", "R", "A", "T", "O", "R", "-", "-", "-">>

\* the ordered list of heading markers of Layer 2
gap_markers == <<
    \* 1: "## Gap Analysis"
    <<"#", "#", " ", "G", "a", "p", " ", "A", "n", "a", "l", "y", "s", "i", "s">>,
    \* 2: "## An{a_acute}lisis de Ajuste al Puesto"
    <<"#", "#", " ", "A", "n", "a_acute", "l", "i", "s", "i", "s", " ", "d", "e", " ", "A",
      "j", "u", "s", "t", "e", " ", "a", "l", " ", "P", "u", "e", "s", "t", "o">>,
    \* 3: "## An{a_acute}lisis de Brechas"
    <<"#", "#", " ", "A", "n", "a_acute", "l", "i", "s", "i", "s", " ", "d", "e", " ", "B",
      "r", "e", "c", "h", "a", "s">>,
    \* 4: "## Analyse des {E_acute}carts"
    <<"#", "#", " ", "A", "n", "a", "l", "y", "s", "e", " ", "d", "e", "s", " ", "E_acute",
      "c", "a", "r", "t", "s">>,
    \* 5: "## L{u_uml}ckenanalyse"
    <<"#", "#", " ", "L", "u_uml", "c", "k", "e", "n", "a", "n", "a", "l", "y", "s", "e">>,
    \* 6: "## Analisi delle Lacune"
    <<"#", "#", " ", "A", "n", "a", "l", "i", "s", "i", " ", "d", "e", "l", "l", "e", " ", "L",
      "a", "c", "u", "n", "e">>,
    \* 7: "## An{a_acute}lise de Lacunas"
    <<"#", "#", " ", "A", "n", "a_acute", "l", "i", "s", "e", " ", "d", "e", " ", "L", "a",
      "c", "u", "n", "a", "s">>,
    \* 8: "## An{a_acute}lisis de Gaps y Recomendaciones"
    <<"#", "#", " ", "A", "n", "a_acute", "l", "i", "s", "i", "s", " ", "d", "e", " ", "G",
      "a", "p", "s", " ", "y", " ", "R", "e", "c", "o", "m", "e", "n", "d", "a", "c", "i", "o",
      "n", "e", "s">>,
    \* 9: "## An{a_acute}lisis de Gaps"
    <<"#", "#", " ", "A", "n", "a_acute", "l", "i", "s", "i", "s", " ", "d", "e", " ", "G",
      "a", "p", "s">>,
    \* 10: "## Gaps y Recomendaciones"
    <<"#", "#", " ", "G", "a", "p", "s", " ", "y", " ", "R", "e", "c", "o", "m", "e", "n", "d",
      "a", "c", "i", "o", "n", "e", "s">>,
    \* 11: "## Recommendations"
    <<"#", "#", " ", "R", "e", "c", "o", "m", "m", "e", "n", "d", "a", "t", "i", "o", "n", "s">>,
    \* 12: "## Recomendaciones"
    <<"#", "#", " ", "R", "e", "c", "o", "m", "e", "n", "d", "a", "c", "i", "o", "n", "e", "s">>,
    \* 13: "## Gap Analysis and Recommendations"
    <<"#", "#", " ", "G", "a", "p", " ", "A", "n", "a", "l", "y", "s", "i", "s", " ", "a", "n",
      "d", " ", "R", "e", "c", "o", "m", "m", "e", "n", "d", "a", "t", "i", "o", "n", "s">>
    >>

\* the list of forbidden lowercase substrings of Layer 3
forbidden_patterns == <<
    \* 1: "gap analysis"
    <<"g", "a", "p", " ", "a", "n", "a", "l", "y", "s", "i", "s">>,
    \* 2: "an{a_acute}lisis de gaps"
    <<"a", "n", "a_acute", "l", "i", "s", "i", "s", " ", "d", "e", " ", "g", "a", "p", "s">>,
    \* 3: "an{a_acute}lisis de brechas"
    <<"a", "n", "a_acute", "l", "i", "s", "i", "s", " ", "d", "e", " ", "b", "r", "e", "c",
      "h", "a", "s">>,
    \* 4: "an{a_acute}lisis de ajuste"
    <<"a", "n", "a_acute", "l", "i", "s", "i", "s", " ", "d", "e", " ", "a", "j", "u", "s",
      "t", "e">>,
    \* 5: "recomendaciones finales"
    <<"r", "e", "c", "o", "m", "e", "n", "d", "a", "c", "i", "o", "n", "e", "s", " ", "f", "i",
      "n", "a", "l", "e", "s">>,
    \* 6: "recommendations"
    <<"r", "e", "c", "o", "m", "m", "e", "n", "d", "a", "t", "i", "o", "n", "s">>,
    \* 7: "mitigaci{o_acute}n"
    <<"m", "i", "t", "i", "g", "a", "c", "i", "o_acute", "n">>,
    \* 8: "fortalezas compensatorias"
    <<"f", "o", "r", "t", "a", "l", "e", "z", "a", "s", " ", "c", "o", "m", "p", "e", "n", "s",
      "a", "t", "o", "r", "i", "a", "s">>,
    \* 9: "fortalezas excepcionales"
    <<"f", "o", "r", "t", "a", "l", "e", "z", "a", "s", " ", "e", "x", "c", "e", "p", "c", "i",
      "o", "n", "a", "l", "e", "s">>,
    \* 10: "gaps identificados"
    <<"g", "a", "p", "s", " ", "i", "d", "e", "n", "t", "i", "f", "i", "c", "a", "d", "o", "s">>,
    \* 11: "gaps y recomendaciones"
    <<"g", "a", "p", "s", " ", "y", " ", "r", "e", "c", "o", "m", "e", "n", "d", "a", "c", "i",
      "o", "n", "e", "s">>,
    \* 12: "sugerencia cv"
    <<"s", "u", "g", "e", "r", "e", "n", "c", "i", "a", " ", "c", "v">>,
    \* 13: "sugerencia:"
    <<"s", "u", "g", "e", "r", "e", "n", "c", "i", "a", ":">>,
    \* 14: "durante la entrevista"
    <<"d", "u", "r", "a", "n", "t", "e", " ", "l", "a", " ", "e", "n", "t", "r", "e", "v", "i",
      "s", "t", "a">>,
    \* 15: "fit pr{a_acute}cticamente perfecto"
    <<"f", "i", "t", " ", "p", "r", "a_acute", "c", "t", "i", "c", "a", "m", "e", "n", "t",
      "e", " ", "p", "e", "r", "f", "e", "c", "t", "o">>,
    \* 16: "match rating"
    <<"m", "a", "t", "c", "h", " ", "r", "a", "t", "i", "n", "g">>,
    \* 17: "% match"
    <<"%", " ", "m", "a", "t", "c", "h">>
    >>

\* "## Gap Analysis\nNo significant gaps identified."
DefaultGapAnalysis ==
    <<"#", "#", " ", "G", "a", "p", " ", "A", "n", "a", "l", "y", "s", "i", "s", "\n", "N",
      "o", " ", "s", "i", "g", "n", "i", "f", "i", "c", "a", "n", "t", " ", "g", "a", "p", "s",
      " ", "i", "d", "e", "n", "t", "i", "f", "i", "e", "d", ".">>

\* "## Gap Analysis\n"
GapHeading ==
    <<"#", "#", " ", "G", "a", "p", " ", "A", "n", "a", "l", "y", "s", "i", "s", "\n">>

\* "none"
MethodNone ==
    <<"n", "o", "n", "e">>

\* "deterministic_separator"
MethodSeparator ==
    <<"d", "e", "t", "e", "r", "m", "i", "n", "i", "s", "t", "i", "c", "_", "s", "e", "p", "a",
      "r", "a", "t", "o", "r">>

\* "marker:"
MarkerPrefix ==
    <<"m", "a", "r", "k", "e", "r", ":">>

\* "+layer3_strip:"
Layer3Prefix ==
    <<"+", "l", "a", "y", "e", "r", "3", "_", "s", "t", "r", "i", "p", ":">>

\* "\n\n"
BlankLine ==
    <<"\n", "\n">>

\* "# CV\n...content...\n---GAP_ANALYSIS_SEPARATOR---\n## Gap Analysis\nMissing AWS experience."
Scenario1 ==
    <<"#", " ", "C", "V", "\n", ".", ".", ".", "c", "o", "n", "t", "e", "n", "t", ".", ".",
      ".", "\n", "-", "-", "-", "G", "A", "P", "_", "A", "N", "A", "L", "Y", "S", "I", "S",
      "_", "S", "E", "P", "A", "R", "A", "T", "O", "R", "-", "-", "-", "\n", "#", "#", " ",
      "G", "a", "p", " ", "A", "n", "a", "l", "y", "s", "i", "s", "\n", "M", "i", "s", "s",
      "i", "n", "g", " ", "A", "W", "S", " ", "e", "x", "p", "e", "r", "i", "e", "n", "c", "e",
      ".">>

\* "# CV\n...\n## Gap Analysis\nSome gaps."
Scenario2 ==
    <<"#", " ", "C", "V", "\n", ".", ".", ".", "\n", "#", "#", " ", "G", "a", "p", " ", "A",
      "n", "a", "l", "y", "s", "i", "s", "\n", "S", "o", "m", "e", " ", "g", "a", "p", "s",
      ".">>

\* "# CV\n...content with no gap section at all"
Scenario3 ==
    <<"#", " ", "C", "V", "\n", ".", ".", ".", "c", "o", "n", "t", "e", "n", "t", " ", "w",
      "i", "t", "h", " ", "n", "o", " ", "g", "a", "p", " ", "s", "e", "c", "t", "i", "o", "n",
      " ", "a", "t", " ", "a", "l", "l">>

\* "# CV\nSummary...\nThis is a 95% match rating for this role.\nMore CV text after."
Scenario4 ==
    <<"#", " ", "C", "V", "\n", "S", "u", "m", "m", "a", "r", "y", ".", ".", ".", "\n", "T",
      "h", "i", "s", " ", "i", "s", " ", "a", " ", "9", "5", "%", " ", "m", "a", "t", "c", "h",
      " ", "r", "a", "t", "i", "n", "g", " ", "f", "o", "r", " ", "t", "h", "i", "s", " ", "r",
      "o", "l", "e", ".", "\n", "M", "o", "r", "e", " ", "C", "V", " ", "t", "e", "x", "t",
      " ", "a", "f", "t", "e", "r", ".">>

\* "# CV\n...content..."
Scenario1Cv ==
    <<"#", " ", "C", "V", "\n", ".", ".", ".", "c", "o", "n", "t", "e", "n", "t", ".", ".",
      ".">>

\* "## Gap Analysis\nMissing AWS experience."
Scenario1Gap ==
    <<"#", "#", " ", "G", "a", "p", " ", "A", "n", "a", "l", "y", "s", "i", "s", "\n", "M",
      "i", "s", "s", "i", "n", "g", " ", "A", "W", "S", " ", "e", "x", "p", "e", "r", "i", "e",
      "n", "c", "e", ".">>

\* "95% match rating"
MatchRatingLine ==
    <<"9", "5", "%", " ", "m", "a", "t", "c", "h", " ", "r", "a", "t", "i", "n", "g">>

\* "## GAP ANALYSIS"
UpperGapHeading ==
    <<"#", "#", " ", "G", "A", "P", " ", "A", "N", "A", "L", "Y", "S", "I", "S">>

\* ------------------------------------------------------- Python str model

None == 0

Min(a, b) == IF a < b THEN a ELSE b

\* the characters str.strip() removes (the ones the model's alphabet has)
Whitespace == {" ", "\t", "\n", "\r"}

\* str.lower(), character by character: every character maps to one character
\* except U+0130 (I_dot), which maps to "i" followed by U+0307 (dot_above)
LowerTable ==
    ("A" :> <<"a">>) @@ ("B" :> <<"b">>) @@ ("C" :> <<"c">>) @@ ("D" :> <<"d">>) @@
    ("E" :> <<"e">>) @@ ("F" :> <<"f">>) @@ ("G" :> <<"g">>) @@ ("H" :> <<"h">>) @@
    ("I" :> <<"i">>) @@ ("J" :> <<"j">>) @@ ("K" :> <<"k">>) @@ ("L" :> <<"l">>) @@
    ("M" :> <<"m">>) @@ ("N" :> <<"n">>) @@ ("O" :> <<"o">>) @@ ("P" :> <<"p">>) @@
    ("Q" :> <<"q">>) @@ ("R" :> <<"r">>) @@ ("S" :> <<"s">>) @@ ("T" :> <<"t">>) @@
    ("U" :> <<"u">>) @@ ("V" :> <<"v">>) @@ ("W" :> <<"w">>) @@ ("X" :> <<"x">>) @@
    ("Y" :> <<"y">>) @@ ("Z" :> <<"z">>) @@
    ("A_acute" :> <<"a_acute">>) @@ ("E_acute" :> <<"e_acute">>) @@
    ("O_acute" :> <<"o_acute">>) @@ ("U_uml" :> <<"u_uml">>) @@
    ("I_dot" :> <<"i", "dot_above">>)

LowerChar(c) == IF c \in DOMAIN LowerTable THEN LowerTable[c] ELSE <<c>>

RECURSIVE LowerFrom(_, _)
LowerFrom(s, i) ==
    IF i > Len(s) THEN <<>> ELSE LowerChar(s[i]) \o LowerFrom(s, i + 1)

\* s.lower()
Lower(s) == LowerFrom(s, 1)

\* s[a:b]
Slice(s, a, b) == SubSeq(s, a + 1, Min(b, Len(s)))

\* s[i:i+len(p)] == p
MatchesAt(s, p, i) ==
    /\ i + Len(p) <= Len(s)
    /\ \A k \in 1..Len(p) : s[i + k] = p[k]

RECURSIVE FindFrom(_, _, _)
FindFrom(s, p, i) ==
    IF i + Len(p) > Len(s) THEN -1
    ELSE IF MatchesAt(s, p, i) THEN i
    ELSE FindFrom(s, p, i + 1)

\* s.find(p): the lowest position of p in s, -1 when there is none
Find(s, p) == FindFrom(s, p, 0)

\* p in s
Contains(s, p) == Find(s, p) # -1

RECURSIVE RFindFrom(_, _, _)
RFindFrom(s, c, i) ==
    IF i < 0 THEN -1
    ELSE IF s[i + 1] = c THEN i
    ELSE RFindFrom(s, c, i - 1)

\* s.rfind(c, 0, end) for a one-character c
RFind(s, c, end) == RFindFrom(s, c, Min(end, Len(s)) - 1)

\* the split as s.rsplit(sep, 1) would make it, at the last occurrence of sep
SplitAtLast(s, sep) ==
    LET at == {i \in 0..(Len(s) - Len(sep)) : MatchesAt(s, sep, i)}
    IN  IF at = {} THEN <<s>>
        ELSE LET i == CHOOSE i \in at : \A j \in at : j <= i
             IN  <<Slice(s, 0, i), Slice(s, i + Len(sep), Len(s))>>

\* s.split(sep, 1): two parts when sep occurs in s, the one part s when it does not
SplitOnce(s, sep) ==
    LET i == Find(s, sep)
    IN  IF i = -1 THEN <<s>>
        ELSE <<Slice(s, 0, i), Slice(s, i + Len(sep), Len(s))>>

RECURSIVE LeadingWs(_, _)
LeadingWs(s, i) ==
    IF i < Len(s) /\ s[i + 1] \in Whitespace THEN LeadingWs(s, i + 1) ELSE i

RECURSIVE TrailingWs(_, _)
TrailingWs(s, n) ==
    IF n > 0 /\ s[n] \in Whitespace THEN TrailingWs(s, n - 1) ELSE n

\* s.rstrip()
RStrip(s) == Slice(s, 0, TrailingWs(s, Len(s)))

\* strip() as it would be if only the end were trimmed
StripEndOnly(s) == Slice(s, 0, TrailingWs(s, Len(s)))

\* s.strip()
Strip(s) ==
    LET a == LeadingWs(s, 0)
    IN  IF a = Len(s) THEN <<>> ELSE Slice(s, a, TrailingWs(s, Len(s)))

\* ------------------------------------------------------------ the layers

\* Layer 2's loop: the first marker of the list, from index k on, that occurs in
\* the text; None when the loop ends without a break
RECURSIVE FirstMarkerFrom(_, _)
FirstMarkerFrom(text, k) ==
    IF k > Len(gap_markers) THEN None
    ELSE IF Contains(text, gap_markers[k]) THEN k
    ELSE FirstMarkerFrom(text, k + 1)

\* Layer 2 as it would be if the leftmost marker won instead of the first of the list
FirstMarkerLeftmost(text) ==
    LET found == {k \in 1..Len(gap_markers) : Contains(text, gap_markers[k])}
    IN  IF found = {} THEN None
        ELSE CHOOSE k \in found :
                 \A j \in found :
                     \/ Find(text, gap_markers[k]) < Find(text, gap_markers[j])
                     \/ Find(text, gap_markers[k]) = Find(text, gap_markers[j]) /\ k <= j

FirstMarker(text) == FirstMarkerFrom(text, 1)

\* Layer 3's loop over forbidden_patterns, from index k on, with the loop's two
\* variables first_forbidden_pos and first_forbidden_pattern (an index, or None)
RECURSIVE ScanForbidden(_, _, _, _)
ScanForbidden(cv_lower, k, first_forbidden_pos, first_forbidden_pattern) ==
    IF k > Len(forbidden_patterns) THEN <<first_forbidden_pos, first_forbidden_pattern>>
    ELSE LET pos == Find(cv_lower, forbidden_patterns[k])
         IN  IF pos # -1 /\ pos < first_forbidden_pos
             THEN ScanForbidden(cv_lower, k + 1, pos, k)
             ELSE ScanForbidden(cv_lower, k + 1, first_forbidden_pos, first_forbidden_pattern)

\* <<first_forbidden_pos, first_forbidden_pattern>> after the loop
FirstForbidden(cv) == ScanForbidden(Lower(cv), 1, Len(cv), None)

\* line_start: just after the last newline before the position, 0 when none
LineStart(cv, first_forbidden_pos) ==
    LET line_start == RFind(cv, "\n", first_forbidden_pos)
    IN  IF line_start = -1 THEN 0 ELSE line_start + 1

\* ---------------------------------------------------------------- inputs

DottedRun == [i \in 1..DottedRunLen |-> "I_dot"]

\* the pieces inputs are built from
Chunks ==
    { DETERMINISTIC_SEPARATOR, gap_markers[1], gap_markers[5], gap_markers[11],
      MatchRatingLine, UpperGapHeading, <<"\n">>, <<"x">>, DottedRun }

RECURSIVE Flatten(_)
Flatten(cs) == IF cs = <<>> THEN <<>> ELSE Head(cs) \o Flatten(Tail(cs))

\* a response with a leaked line before the separator token: scenario 4, the
\* token on its own line, the gap section of scenario 1
Scenario4WithSeparator ==
    Scenario4 \o <<"\n">> \o DETERMINISTIC_SEPARATOR \o <<"\n">> \o Scenario1Gap

\* the concrete scenarios, and every concatenation of at most MaxChunks chunks
\* a response with the separator token on a second line of its gap analysis
Scenario1TwoSeparators ==
    Scenario1 \o <<"\n">> \o DETERMINISTIC_SEPARATOR \o <<"\n">> \o <<"x">>

Inputs ==
    {Scenario1, Scenario2, Scenario3, Scenario4, Scenario4WithSeparator,
     Scenario1TwoSeparators}
    \cup {Flatten(cs) : cs \in UNION {[1..n -> Chunks] : n \in 0..MaxChunks}}

\* ---------------------------------------------------------------- actions

Init ==
    /\ tailored_cv \in Inputs
    /\ cv_content = tailored_cv
    /\ gap_analysis = DefaultGapAnalysis
    /\ split_method = MethodNone
    /\ scanned = <<>>
    /\ out_cv = <<>>
    /\ out_gaps = <<>>
    /\ pc = "layer12"
    /\ fed_from = <<>>
    /\ files = <<>>
    /\ req = <<>>
    /\ calls = 0
    /\ github = <<>>

\* Layer 1 as it would be without the strip() of the text after the token
Layer1RawGap ==
    /\ pc = "layer12"
    /\ Contains(tailored_cv, DETERMINISTIC_SEPARATOR)
    /\ LET parts == SplitOnce(tailored_cv, DETERMINISTIC_SEPARATOR)
       IN  /\ cv_content' = parts[1]
           /\ gap_analysis' = GapHeading \o parts[2]
    /\ split_method' = MethodSeparator
    /\ pc' = "layer3"
    /\ UNCHANGED <<fed_from, web, github, tailored_cv, scanned, out_cv, out_gaps>>

\* Layer 1 as it would be without the heading it puts in front of the gap text
Layer1NoHeading ==
    /\ pc = "layer12"
    /\ Contains(tailored_cv, DETERMINISTIC_SEPARATOR)
    /\ LET parts == SplitOnce(tailored_cv, DETERMINISTIC_SEPARATOR)
       IN  /\ cv_content' = parts[1]
           /\ gap_analysis' = Strip(parts[2])
    /\ split_method' = MethodSeparator
    /\ pc' = "layer3"
    /\ UNCHANGED <<fed_from, web, github, tailored_cv, scanned, out_cv, out_gaps>>

\* Layer 1: the deterministic separator occurs in the response.  The assignment
\* unpacks the list split() returns into two names, and raises ValueError when
\* the list does not hold two parts.
Layer1 ==
    /\ pc = "layer12"
    /\ Contains(tailored_cv, DETERMINISTIC_SEPARATOR)
    /\ LET parts == SplitOnce(tailored_cv, DETERMINISTIC_SEPARATOR)
       IN  IF Len(parts) = 2
           THEN /\ cv_content' = parts[1]
                /\ gap_analysis' = GapHeading \o Strip(parts[2])
                /\ split_method' = MethodSeparator
                /\ pc' = "layer3"
           ELSE /\ pc' = "raised"
                /\ UNCHANGED <<cv_content, gap_analysis, split_method>>
    /\ UNCHANGED <<fed_from, web, github, tailored_cv, scanned, out_cv, out_gaps>>

\* Layer 2 as it would be if the marker were not put back in front of the gap text
Layer2MarkerDropped ==
    /\ pc = "layer12"
    /\ ~Contains(tailored_cv, DETERMINISTIC_SEPARATOR)
    /\ FirstMarker(tailored_cv) # None
    /\ LET marker == gap_markers[FirstMarker(tailored_cv)]
           parts == SplitOnce(tailored_cv, marker)
       IN  /\ cv_content' = parts[1]
           /\ gap_analysis' = parts[2]
           /\ split_method' = MarkerPrefix \o marker
    /\ pc' = "layer3"
    /\ UNCHANGED <<fed_from, web, github, tailored_cv, scanned, out_cv, out_gaps>>

\* Layer 2 as it would be if it were tried whether or not the separator occurs
Layer2MarkerAlways ==
    /\ pc = "layer12"
    /\ FirstMarker(tailored_cv) # None
    /\ LET marker == gap_markers[FirstMarker(tailored_cv)]
           parts == SplitOnce(tailored_cv, marker)
       IN  /\ cv_content' = parts[1]
           /\ gap_analysis' = marker \o parts[2]
           /\ split_method' = MarkerPrefix \o marker
    /\ pc' = "layer3"
    /\ UNCHANGED <<fed_from, web, github, tailored_cv, scanned, out_cv, out_gaps>>

\* Layer 2: no separator, and the loop over gap_markers breaks at a marker (the
\* same unpacking assignment as in Layer 1)
Layer2Marker ==
    /\ pc = "layer12"
    /\ ~Contains(tailored_cv, DETERMINISTIC_SEPARATOR)
    /\ FirstMarker(tailored_cv) # None
    /\ LET marker == gap_markers[FirstMarker(tailored_cv)]
           parts == SplitOnce(tailored_cv, marker)
       IN  IF Len(parts) = 2
           THEN /\ cv_content' = parts[1]
                /\ gap_analysis' = marker \o parts[2]
                /\ split_method' = MarkerPrefix \o marker
                /\ pc' = "layer3"
           ELSE /\ pc' = "raised"
                /\ UNCHANGED <<cv_content, gap_analysis, split_method>>
    /\ UNCHANGED <<fed_from, web, github, tailored_cv, scanned, out_cv, out_gaps>>

\* Layer 2: no separator, and the loop ends without a break
Layer2NoMarker ==
    /\ pc = "layer12"
    /\ ~Contains(tailored_cv, DETERMINISTIC_SEPARATOR)
    /\ FirstMarker(tailored_cv) = None
    /\ pc' = "layer3"
    /\ UNCHANGED <<fed_from, web, github, tailored_cv, cv_content, gap_analysis, split_method,
                   scanned, out_cv, out_gaps>>

\* Layer 3 as it would be if the text cut from the CV were dropped
Layer3StripDiscard ==
    /\ pc = "layer3"
    /\ FirstForbidden(cv_content)[2] # None
    /\ LET found == FirstForbidden(cv_content)
           line_start == LineStart(cv_content, found[1])
       IN  /\ cv_content' = RStrip(Slice(cv_content, 0, line_start))
           /\ split_method' = split_method \o Layer3Prefix \o forbidden_patterns[found[2]]
    /\ scanned' = <<cv_content, gap_analysis, split_method>>
    /\ pc' = "save"
    /\ UNCHANGED <<fed_from, web, github, tailored_cv, gap_analysis, out_cv, out_gaps>>

\* Layer 3: a forbidden pattern was found, the CV is cut at line_start
Layer3Strip ==
    /\ pc = "layer3"
    /\ FirstForbidden(cv_content)[2] # None
    /\ LET found == FirstForbidden(cv_content)
           line_start == LineStart(cv_content, found[1])
           leaked_content == Slice(cv_content, line_start, Len(cv_content))
       IN  /\ cv_content' = RStrip(Slice(cv_content, 0, line_start))
           /\ gap_analysis' = Strip(leaked_content) \o BlankLine \o gap_analysis
           /\ split_method' = split_method \o Layer3Prefix \o forbidden_patterns[found[2]]
    /\ scanned' = <<cv_content, gap_analysis, split_method>>
    /\ pc' = "save"
    /\ UNCHANGED <<fed_from, web, github, tailored_cv, out_cv, out_gaps>>

\* Layer 3 as it would be if the rstrip() of cv_content were done on this path too
Layer3CleanRStrip ==
    /\ pc = "layer3"
    /\ FirstForbidden(cv_content)[2] = None
    /\ cv_content' = RStrip(cv_content)
    /\ scanned' = <<cv_content, gap_analysis, split_method>>
    /\ pc' = "save"
    /\ UNCHANGED <<fed_from, web, github, tailored_cv, gap_analysis, split_method, out_cv, out_gaps>>

\* Layer 3: no forbidden pattern was found
Layer3Clean ==
    /\ pc = "layer3"
    /\ FirstForbidden(cv_content)[2] = None
    /\ scanned' = <<cv_content, gap_analysis, split_method>>
    /\ pc' = "save"
    /\ UNCHANGED <<fed_from, web, github, tailored_cv, cv_content, gap_analysis, split_method, out_cv, out_gaps>>

\* the save as it would be without the strip() of cv_content
SaveUnstripped ==
    /\ pc = "save"
    /\ out_cv' = <<cv_content>>
    /\ out_gaps' = <<gap_analysis>>
    /\ pc' = "done"
    /\ UNCHANGED <<fed_from, web, github, tailored_cv, cv_content, gap_analysis, split_method, scanned>>

\* the two files are written
Save ==
    /\ pc = "save"
    /\ out_cv' = <<Strip(cv_content)>>
    /\ out_gaps' = <<gap_analysis>>
    /\ pc' = "done"
    /\ UNCHANGED <<fed_from, web, github, tailored_cv, cv_content, gap_analysis, split_method, scanned>>

Next ==
    \/ Layer1
    \/ Layer2Marker
    \/ Layer2NoMarker
    \/ Layer3Strip
    \/ Layer3Clean
    \/ Save

Spec == Init /\ [][Next]_vars

\* main is run a second time, on a response that is the gap analysis its first
\* run saved: the locals start as in Init
FeedBack ==
    /\ pc = "done"
    /\ fed_from = <<>>
    /\ fed_from' = <<split_method>>
    /\ tailored_cv' = out_gaps[1]
    /\ cv_content' = out_gaps[1]
    /\ gap_analysis' = DefaultGapAnalysis
    /\ split_method' = MethodNone
    /\ scanned' = <<>>
    /\ out_cv' = <<>>
    /\ out_gaps' = <<>>
    /\ pc' = "layer12"
    /\ UNCHANGED <<web, github>>

NextRerun ==
    \/ Next
    \/ FeedBack

\* the runs of main followed by a run on the gap analysis they saved
SpecRerun == Init /\ [][NextRerun]_vars

\* ------------------------------------------------- the web service: data

\* the number of requests the service receives in a run
MaxCalls == 2

\* the worker threads serving requests
Threads == {1, 2}

\* the thread that serves the requests when they come one at a time
FirstThread == CHOOSE t \in Threads : \A u \in Threads : t <= u

\* the job of the files an earlier run of the service has left
PriorJob == MaxCalls + 1

\* the values of the iteration field of a request body: absent (None, which the
\* handlers read as 1) and 2
Iterations == {None, 2}

\* where a thread takes its first request, and where it takes any request
Fresh == {"idle"}

Free == {"idle", "closed"}

\* the ordered list of heading markers of _split_cv_and_gaps
web_gap_markers == <<
    <<"#", "#", " ", "G", "a", "p", " ", "A", "n", "a", "l", "y", "s", "i", "s">>,
    <<"#", "#", " ", "A", "n", "a_acute", "l", "i", "s", "i", "s", " ", "d", "e", " ", "A",
      "j", "u", "s", "t", "e", " ", "a", "l", " ", "P", "u", "e", "s", "t", "o">>,
    <<"#", "#", " ", "A", "n", "a_acute", "l", "i", "s", "i", "s", " ", "d", "e", " ", "B",
      "r", "e", "c", "h", "a", "s">>,
    <<"#", "#", " ", "A", "n", "a", "l", "y", "s", "e", " ", "d", "e", "s", " ", "E_acute",
      "c", "a", "r", "t", "s">>,
    <<"#", "#", " ", "L", "u_uml", "c", "k", "e", "n", "a", "n", "a", "l", "y", "s", "e">>,
    <<"#", "#", " ", "A", "n", "a", "l", "i", "s", "i", " ", "d", "e", "l", "l", "e", " ", "L",
      "a", "c", "u", "n", "e">>,
    <<"#", "#", " ", "A", "n", "a_acute", "l", "i", "s", "e", " ", "d", "e", " ", "L", "a",
      "c", "u", "n", "a", "s">>
>>

\* "## Gap Analysis\nNo significant gaps identified."
WebNoGaps ==
    <<"#", "#", " ", "G", "a", "p", " ", "A", "n", "a", "l", "y", "s", "i", "s", "\n", "N",
      "o", " ", "s", "i", "g", "n", "i", "f", "i", "c", "a", "n", "t", " ", "g", "a", "p", "s",
      " ", "i", "d", "e", "n", "t", "i", "f", "i", "e", "d", ".">>

\* " x \n## L{u_uml}ckenanalyse\ny \n"
PaddedGerman ==
    <<" ", "x", " ", "\n", "#", "#", " ", "L", "u_uml", "c", "k", "e", "n", "a", "n", "a", "l",
      "y", "s", "e", "\n", "y", " ", "\n">>

\* the responses generate_tailored_cv returns to the web service
RawResponses == {Scenario1, Scenario3, PaddedGerman}

\* the loop of _split_cv_and_gaps from marker k on: <<cv_content, gap_analysis>>
RECURSIVE split_from(_, _)
split_from(raw_cv, k) ==
    IF k > Len(web_gap_markers) THEN <<Strip(raw_cv), WebNoGaps>>
    ELSE IF Contains(raw_cv, web_gap_markers[k])
         THEN LET parts == SplitOnce(raw_cv, web_gap_markers[k])
              IN  <<Strip(parts[1]), Strip(web_gap_markers[k] \o parts[2])>>
         ELSE split_from(raw_cv, k + 1)

\* _split_cv_and_gaps(raw_cv)
split_cv_and_gaps(raw_cv) == split_from(raw_cv, 1)

\* a file: st is "absent", "empty" (opened for writing, nothing written yet) or
\* "full"; job is the job a job analysis is about, or whose name a PDF carries;
\* of is the job the text was written for; text is the text of a text file
File(st, job, of, text) == [st |-> st, job |-> job, of |-> of, text |-> text]

NoFile == File("absent", None, None, <<>>)

\* what open(path, "w") leaves before anything is written
EmptyFile == File("empty", None, None, <<>>)

FileNames ==
    {"job_analysis", "cv_database", "tailored_cv", "cv_gaps", "cover_letter",
     "github_selected", "cv_pdf", "cover_letter_pdf"}

\* a thread that serves no request
Idle ==
    [ep |-> "none", at |-> "idle", iteration |-> None, source |-> "none", cover |-> FALSE,
     job |-> None, analysis |-> None, github_projects |-> None,
     raw_cv |-> <<>>, cv_content |-> <<>>, gap_analysis |-> <<>>, pdf_job |-> None,
     scraped |-> FALSE, analysed |-> FALSE,
     both_limits |-> FALSE, gh_error |-> FALSE, cv_md |-> <<>>,
     events |-> <<>>, status |-> None, body |-> <<>>]

\* iteration = req.iteration or 1
IterationOf(r) == IF r.iteration = None THEN 1 ELSE r.iteration

\* the variables of the scripts run from the command line
cli == <<pc, tailored_cv, cv_content, gap_analysis, split_method, scanned, out_cv, out_gaps,
         fed_from, github>>

\* the files an earlier run has left: a job analysis, the CV database, the CV
\* written for that job and its gap analysis
PriorFiles ==
    [n \in FileNames |->
        IF n = "job_analysis" THEN File("full", PriorJob, PriorJob, <<>>)
        ELSE IF n = "cv_database" THEN File("full", None, None, <<>>)
        ELSE IF n = "tailored_cv" THEN File("full", None, PriorJob, Scenario1Cv)
        ELSE IF n = "cv_gaps" THEN File("full", None, PriorJob, Scenario1Gap)
        ELSE NoFile]

\* the service has started; .tmp/job_applications is empty or holds the files of
\* an earlier run
WebInit ==
    /\ pc = "off"
    /\ tailored_cv = <<>>
    /\ cv_content = <<>>
    /\ gap_analysis = <<>>
    /\ split_method = <<>>
    /\ scanned = <<>>
    /\ out_cv = <<>>
    /\ out_gaps = <<>>
    /\ fed_from = <<>>
    /\ files \in {[n \in FileNames |-> NoFile], PriorFiles}
    /\ req = [t \in Threads |-> Idle]
    /\ calls = 0
    /\ github = <<>>

\* the request of thread t with the fields of r changed
Set(t, r) == req' = [req EXCEPT ![t] = r]

\* the request of thread t ends with an HTTP status and a body
Respond(t, r, status, body) ==
    Set(t, [r EXCEPT !.at = "closed", !.status = status, !.body = body])

\* file n is written
Write(n, f) == files' = [files EXCEPT ![n] = f]

\* thread t, at one of the positions of from, takes a request; the k-th request
\* the service receives is about job k
Receive(t, from, ep, at, iteration, source, cover) ==
    /\ calls < MaxCalls
    /\ req[t].at \in from
    /\ calls' = calls + 1
    /\ Set(t, [Idle EXCEPT !.ep = ep, !.at = at, !.iteration = iteration,
                           !.source = source, !.cover = cover, !.job = calls + 1])
    /\ UNCHANGED <<cli, files>>

\* ---------------------------------------------- the web service: endpoints

Sources == {"none", "url", "text"}

\* r's event stream with one more event
Emit(r, event, step) == Append(r.events, <<event, step>>)

\* r's event stream with two more events
Emit2(r, event1, event2, step) == Append(Append(r.events, <<event1, step>>), <<event2, step>>)

\* POST /api/analyze-job is received
ReceiveAnalyzeJob(t, from) ==
    \E source \in Sources : Receive(t, from, "analyze_job", "aj_analyze", None, source, FALSE)

\* api_analyze_job up to the open() of _save_json: the 400 of a request with no
\* url and no text, the 422 of a failed scrape, an exception of the LLM call
AnalyzeJob(t) ==
    LET r == req[t]
    IN  /\ r.at = "aj_analyze"
        /\ IF r.source = "none"
           THEN Respond(t, r, 400, <<>>) /\ UNCHANGED files
           ELSE \E outcome \in {"scrape_failed", "llm_raised", "ok"} :
                    /\ outcome = "scrape_failed" => r.source = "url"
                    /\ IF outcome = "scrape_failed"
                       THEN /\ Respond(t, [r EXCEPT !.scraped = TRUE], 422, <<>>)
                            /\ UNCHANGED files
                       ELSE IF outcome = "llm_raised"
                       THEN /\ Respond(t, [r EXCEPT !.scraped = (r.source = "url"),
                                                    !.analysed = TRUE], 500, <<>>)
                            /\ UNCHANGED files
                       ELSE /\ Set(t, [r EXCEPT !.scraped = (r.source = "url"),
                                                !.analysed = TRUE, !.analysis = r.job,
                                                !.at = "aj_write"])
                            /\ Write("job_analysis", EmptyFile)
        /\ UNCHANGED <<cli, calls>>

\* api_analyze_job: json.dump into job_analysis.json, and the return
AnalyzeJobWrite(t) ==
    LET r == req[t]
    IN  /\ r.at = "aj_write"
        /\ Write("job_analysis", File("full", r.analysis, r.analysis, <<>>))
        /\ Respond(t, r, 200, <<>>)
        /\ UNCHANGED <<cli, calls>>

\* POST /api/load-cv is received
ReceiveLoadCv(t, from) == Receive(t, from, "load_cv", "lc_open", None, "none", FALSE)

\* api_load_cv up to the open() of _save_json
LoadCv(t) ==
    LET r == req[t]
    IN  /\ r.at = "lc_open"
        /\ Write("cv_database", EmptyFile)
        /\ Set(t, [r EXCEPT !.at = "lc_write"])
        /\ UNCHANGED <<cli, calls>>

\* api_load_cv: json.dump into cv_database.json, and the return
LoadCvWrite(t) ==
    LET r == req[t]
    IN  /\ r.at = "lc_write"
        /\ Write("cv_database", File("full", None, None, <<>>))
        /\ Respond(t, r, 200, <<>>)
        /\ UNCHANGED <<cli, calls>>

\* POST /api/generate-cv is received
ReceiveGenerateCv(t, from) ==
    \E iteration \in Iterations : Receive(t, from, "generate_cv", "cv_check", iteration, "none", FALSE)

\* api_generate_cv: the two exists() tests
GenerateCvCheck(t) ==
    LET r == req[t]
    IN  /\ r.at = "cv_check"
        /\ IF files["job_analysis"].st = "absent" \/ files["cv_database"].st = "absent"
           THEN Respond(t, r, 400, <<>>)
           ELSE Set(t, [r EXCEPT !.at = "cv_load"])
        /\ UNCHANGED <<cli, files, calls>>

\* api_generate_cv: the two load_json calls (json.load raises on a file that was
\* opened for writing and not written yet) and _fetch_github_projects, whose
\* gh_error is dropped; the SystemExit of fetch_repo_readmes ends the request
\* with no response
GenerateCvLoad(t) ==
    LET r == req[t]
    IN  /\ r.at = "cv_load"
        /\ IF files["job_analysis"].st # "full" \/ files["cv_database"].st # "full"
           THEN Respond(t, r, 500, <<>>) /\ UNCHANGED files
           ELSE \E outcome \in {"none", "exit", "selected"} :
                    LET job == files["job_analysis"].job
                    IN  IF outcome = "selected"
                        THEN /\ Write("github_selected", File("full", job, job, <<>>))
                             /\ Set(t, [r EXCEPT !.analysis = job, !.github_projects = job,
                                                 !.at = "cv_generate"])
                        ELSE IF outcome = "exit"
                        THEN /\ UNCHANGED files
                             /\ Set(t, [r EXCEPT !.analysis = job, !.at = "exited"])
                        ELSE /\ UNCHANGED files
                             /\ Set(t, [r EXCEPT !.analysis = job, !.at = "cv_generate"])
        /\ UNCHANGED <<cli, calls>>

\* api_generate_cv: generate_tailored_cv (which may raise), _split_cv_and_gaps,
\* and the open() of the first _save_text
GenerateCvGenerate(t) ==
    LET r == req[t]
    IN  /\ r.at = "cv_generate"
        /\ \/ Respond(t, r, 500, <<>>) /\ UNCHANGED files
           \/ \E raw_cv \in RawResponses :
                  LET split == split_cv_and_gaps(raw_cv)
                  IN  /\ Set(t, [r EXCEPT !.raw_cv = raw_cv, !.cv_content = split[1],
                                          !.gap_analysis = split[2], !.at = "cv_write"])
                      /\ Write("tailored_cv", EmptyFile)
        /\ UNCHANGED <<cli, calls>>

\* api_generate_cv as it would be if cv_content and gap_analysis were variables
\* shared by the threads: a thread that has split its response meanwhile has
\* overwritten them
GenerateCvWriteShared(t) ==
    LET r == req[t]
        others == {u \in Threads : u # t /\ req[u].at = "cv_write"}
        last == IF others = {} THEN r ELSE req[CHOOSE u \in others : TRUE]
    IN  /\ r.at = "cv_write"
        /\ files' = [files EXCEPT !["tailored_cv"] = File("full", None, r.analysis, last.cv_content),
                                  !["cv_gaps"] = File("full", None, r.analysis, last.gap_analysis)]
        /\ Respond(t, r, 200, <<last.cv_content, last.gap_analysis>>)
        /\ UNCHANGED <<cli, calls>>

\* api_generate_cv: the writes of tailored_cv.md and cv_gaps.txt, and the return
GenerateCvWrite(t) ==
    LET r == req[t]
    IN  /\ r.at = "cv_write"
        /\ files' = [files EXCEPT !["tailored_cv"] = File("full", None, r.analysis, r.cv_content),
                                  !["cv_gaps"] = File("full", None, r.analysis, r.gap_analysis)]
        /\ Respond(t, r, 200, <<r.cv_content, r.gap_analysis>>)
        /\ UNCHANGED <<cli, calls>>

\* POST /api/generate-all is received
ReceiveGenerateAll(t, from) ==
    \E iteration \in Iterations, source \in Sources, cover \in BOOLEAN :
        Receive(t, from, "generate_all", "ga_validate", iteration, source, cover)

\* the validation as it would be without the test for job_analysis.json
GenerateAllValidateInputOnly(t) ==
    LET r == req[t]
        iteration == IterationOf(r)
    IN  /\ r.at = "ga_validate"
        /\ IF iteration <= 1 /\ r.source = "none"
           THEN Respond(t, r, 400, <<>>)
           ELSE Set(t, [r EXCEPT !.at = "ga_start", !.status = 200])
        /\ UNCHANGED <<cli, files, calls>>

\* api_generate_all: the validation before the stream, and the return of the
\* StreamingResponse
GenerateAllValidate(t) ==
    LET r == req[t]
        iteration == IterationOf(r)
    IN  /\ r.at = "ga_validate"
        /\ IF iteration <= 1 /\ r.source = "none"
           THEN Respond(t, r, 400, <<>>)
           ELSE IF iteration > 1 /\ files["job_analysis"].st = "absent"
           THEN Respond(t, r, 400, <<>>)
           ELSE Set(t, [r EXCEPT !.at = "ga_start", !.status = 200])
        /\ UNCHANGED <<cli, files, calls>>

\* event_stream, step 1 as it would be if it ran whatever the iteration
GenerateAllStartAnalysisAlways(t) ==
    LET r == req[t]
    IN  /\ r.at = "ga_start"
        /\ Set(t, [r EXCEPT !.events = Emit(r, "progress", "analyzing_job"),
                            !.at = "ga_analyze"])
        /\ UNCHANGED <<cli, files, calls>>

\* event_stream, step 1 on iteration <= 1: the progress event
GenerateAllStartAnalysis(t) ==
    LET r == req[t]
    IN  /\ r.at = "ga_start"
        /\ IterationOf(r) <= 1
        /\ Set(t, [r EXCEPT !.events = Emit(r, "progress", "analyzing_job"),
                            !.at = "ga_analyze"])
        /\ UNCHANGED <<cli, files, calls>>

\* event_stream, step 1 on iteration > 1: load_json outside any try (an exception
\* ends the generator with nothing yielded), then the step_result event
GenerateAllReuseAnalysis(t) ==
    LET r == req[t]
    IN  /\ r.at = "ga_start"
        /\ IterationOf(r) > 1
        /\ IF files["job_analysis"].st # "full"
           THEN Set(t, [r EXCEPT !.at = "closed"])
           ELSE Set(t, [r EXCEPT !.analysis = files["job_analysis"].job,
                                 !.events = Emit(r, "step_result", "analyzing_job"),
                                 !.at = "ga_load_cv"])
        /\ UNCHANGED <<cli, files, calls>>

\* event_stream, step 1: scrape_job_url, analyze_with_llm and the open() of
\* _save_json; a failed scrape and an exception yield an error event
GenerateAllAnalyze(t) ==
    LET r == req[t]
    IN  /\ r.at = "ga_analyze"
        /\ \E outcome \in {"scrape_failed", "llm_raised", "ok"} :
               /\ outcome = "scrape_failed" => r.source = "url"
               /\ IF outcome = "scrape_failed"
                  THEN /\ Set(t, [r EXCEPT !.scraped = TRUE,
                                           !.events = Emit(r, "error", "analyzing_job"),
                                           !.at = "closed"])
                       /\ UNCHANGED files
                  ELSE IF outcome = "llm_raised"
                  THEN /\ Set(t, [r EXCEPT !.scraped = (r.source = "url"), !.analysed = TRUE,
                                           !.events = Emit(r, "error", "analyzing_job"),
                                           !.at = "closed"])
                       /\ UNCHANGED files
                  ELSE /\ Set(t, [r EXCEPT !.scraped = (r.source = "url"), !.analysed = TRUE,
                                           !.analysis = r.job, !.at = "ga_write_analysis"])
                       /\ Write("job_analysis", EmptyFile)
        /\ UNCHANGED <<cli, calls>>

\* event_stream, step 1: json.dump into job_analysis.json, the step_result event
GenerateAllWriteAnalysis(t) ==
    LET r == req[t]
    IN  /\ r.at = "ga_write_analysis"
        /\ Write("job_analysis", File("full", r.analysis, r.analysis, <<>>))
        /\ Set(t, [r EXCEPT !.events = Emit(r, "step_result", "analyzing_job"),
                            !.at = "ga_load_cv"])
        /\ UNCHANGED <<cli, calls>>

\* event_stream, step 2: the progress event, get_user_data and the open() of
\* _save_json; an exception yields an error event
GenerateAllLoadCv(t) ==
    LET r == req[t]
    IN  /\ r.at = "ga_load_cv"
        /\ \/ /\ Set(t, [r EXCEPT !.events = Emit2(r, "progress", "error", "loading_cv"),
                                  !.at = "closed"])
              /\ UNCHANGED files
           \/ /\ Set(t, [r EXCEPT !.events = Emit(r, "progress", "loading_cv"),
                                  !.at = "ga_write_cv_db"])
              /\ Write("cv_database", EmptyFile)
        /\ UNCHANGED <<cli, calls>>

\* event_stream, step 2: json.dump into cv_database.json
GenerateAllWriteCvDb(t) ==
    LET r == req[t]
    IN  /\ r.at = "ga_write_cv_db"
        /\ Write("cv_database", File("full", None, None, <<>>))
        /\ Set(t, [r EXCEPT !.at = "ga_github"])
        /\ UNCHANGED <<cli, calls>>

\* event_stream, step 2b: the progress event and _fetch_github_projects.  With
\* no curated repository it returns no project; an Exception raised inside it is
\* caught and returned as gh_error with no project; the sys.exit(1) of
\* fetch_repo_readmes (no GITHUB_TOKEN) raises SystemExit, which no
\* "except Exception" catches: it leaves the generator and nothing more is sent;
\* with projects, github_repos_selected.json is written and cv_database.json is
\* opened for writing again
GenerateAllGithub(t) ==
    LET r == req[t]
    IN  /\ r.at = "ga_github"
        /\ \E outcome \in {"none", "raised", "exit", "selected"} :
               IF outcome = "selected"
               THEN /\ Set(t, [r EXCEPT !.github_projects = r.analysis,
                                        !.events = Emit(r, "progress", "fetching_github"),
                                        !.at = "ga_write_cv_db_github"])
                    /\ files' = [files EXCEPT
                                    !["github_selected"] = File("full", r.analysis, r.analysis, <<>>),
                                    !["cv_database"] = EmptyFile]
               ELSE IF outcome = "exit"
               THEN /\ Set(t, [r EXCEPT !.events = Emit(r, "progress", "fetching_github"),
                                        !.at = "exited"])
                    /\ UNCHANGED files
               ELSE /\ Set(t, [r EXCEPT !.gh_error = (outcome = "raised"),
                                        !.events = Emit2(r, "progress", "step_result",
                                                         "fetching_github"),
                                        !.at = "ga_generate_cv"])
                    /\ UNCHANGED files
        /\ UNCHANGED <<cli, calls>>

\* event_stream, step 2b: json.dump into cv_database.json, the step_result event
GenerateAllWriteCvDbGithub(t) ==
    LET r == req[t]
    IN  /\ r.at = "ga_write_cv_db_github"
        /\ Write("cv_database", File("full", r.github_projects, r.github_projects, <<>>))
        /\ Set(t, [r EXCEPT !.events = Emit(r, "step_result", "fetching_github"),
                            !.at = "ga_generate_cv"])
        /\ UNCHANGED <<cli, calls>>

\* event_stream, step 3: the progress event, generate_tailored_cv,
\* _split_cv_and_gaps and the open() of the first _save_text; an exception yields
\* an error event
GenerateAllGenerateCv(t) ==
    LET r == req[t]
    IN  /\ r.at = "ga_generate_cv"
        /\ \/ /\ Set(t, [r EXCEPT !.events = Emit2(r, "progress", "error", "generating_cv"),
                                  !.at = "closed"])
              /\ UNCHANGED files
           \/ \E raw_cv \in RawResponses :
                  LET split == split_cv_and_gaps(raw_cv)
                  IN  /\ Set(t, [r EXCEPT !.raw_cv = raw_cv, !.cv_content = split[1],
                                          !.gap_analysis = split[2],
                                          !.events = Emit(r, "progress", "generating_cv"),
                                          !.at = "ga_write_cv"])
                      /\ Write("tailored_cv", EmptyFile)
        /\ UNCHANGED <<cli, calls>>

\* event_stream, step 3: the write of tailored_cv.md and the open() of the second
\* _save_text
GenerateAllWriteCv(t) ==
    LET r == req[t]
    IN  /\ r.at = "ga_write_cv"
        /\ files' = [files EXCEPT !["tailored_cv"] = File("full", None, r.analysis, r.cv_content),
                                  !["cv_gaps"] = EmptyFile]
        /\ Set(t, [r EXCEPT !.at = "ga_write_gaps"])
        /\ UNCHANGED <<cli, calls>>

\* event_stream, step 3: the write of cv_gaps.txt, the step_result event
GenerateAllWriteGaps(t) ==
    LET r == req[t]
    IN  /\ r.at = "ga_write_gaps"
        /\ Write("cv_gaps", File("full", None, r.analysis, r.gap_analysis))
        /\ Set(t, [r EXCEPT !.events = Emit(r, "step_result", "generating_cv"),
                            !.at = IF r.cover THEN "ga_cover_letter" ELSE "ga_pdfs"])
        /\ UNCHANGED <<cli, calls>>

\* event_stream, step 4: the progress event, generate_cover_letter and the open()
\* of _save_text; an exception yields an error event
GenerateAllCoverLetter(t) ==
    LET r == req[t]
    IN  /\ r.at = "ga_cover_letter"
        /\ \/ /\ Set(t, [r EXCEPT !.events = Emit2(r, "progress", "error",
                                                   "generating_cover_letter"),
                                  !.at = "closed"])
              /\ UNCHANGED files
           \/ /\ Set(t, [r EXCEPT !.events = Emit(r, "progress", "generating_cover_letter"),
                                  !.at = "ga_write_cover_letter"])
              /\ Write("cover_letter", EmptyFile)
        /\ UNCHANGED <<cli, calls>>

\* event_stream, step 4: the write of cover_letter.md, the step_result event
GenerateAllWriteCoverLetter(t) ==
    LET r == req[t]
    IN  /\ r.at = "ga_write_cover_letter"
        /\ Write("cover_letter", File("full", None, r.analysis, r.cv_content))
        /\ Set(t, [r EXCEPT !.events = Emit(r, "step_result", "generating_cover_letter"),
                            !.at = "ga_pdfs"])
        /\ UNCHANGED <<cli, calls>>

\* event_stream, step 5: the progress event and the load of job_analysis.json
\* when it exists; json.load raises on a file not written yet, which yields an
\* error event
GenerateAllPdfs(t) ==
    LET r == req[t]
    IN  /\ r.at = "ga_pdfs"
        /\ IF files["job_analysis"].st = "empty"
           THEN Set(t, [r EXCEPT !.events = Emit2(r, "progress", "error", "creating_pdfs"),
                                 !.at = "closed"])
           ELSE Set(t, [r EXCEPT !.events = Emit(r, "progress", "creating_pdfs"),
                                 !.pdf_job = files["job_analysis"].job,
                                 !.at = "ga_make_pdfs"])
        /\ UNCHANGED <<cli, files, calls>>

\* event_stream, step 5: tailored_cv.md is read back and made a PDF named after
\* the job analysis, cover_letter.md too when asked for and present; then the
\* complete event.  An exception yields an error event.
GenerateAllMakePdfs(t) ==
    LET r == req[t]
        cv == files["tailored_cv"]
        letter == files["cover_letter"]
    IN  /\ r.at = "ga_make_pdfs"
        /\ \/ /\ Set(t, [r EXCEPT !.events = Emit(r, "error", "creating_pdfs"),
                                  !.at = "closed"])
              /\ UNCHANGED files
           \/ /\ cv.st # "absent"
              /\ files' = [files EXCEPT
                              !["cv_pdf"] = File("full", r.pdf_job, cv.of, cv.text),
                              !["cover_letter_pdf"] =
                                  IF r.cover /\ letter.st # "absent"
                                  THEN File("full", r.pdf_job, letter.of, letter.text)
                                  ELSE @]
              /\ Set(t, [r EXCEPT !.cv_md = cv.text,
                                  !.events = Emit(r, "complete", "creating_pdfs"),
                                  !.at = "closed"])
        /\ UNCHANGED <<cli, calls>>

\* POST /api/generate-cover-letter is received; both_limits says that the request
\* gives max_words and max_chars
ReceiveGenerateCoverLetter(t, from) ==
    \E iteration \in Iterations, both_limits \in BOOLEAN :
        /\ calls < MaxCalls
        /\ req[t].at \in from
        /\ calls' = calls + 1
        /\ Set(t, [Idle EXCEPT !.ep = "generate_cover_letter", !.at = "cl_check",
                               !.iteration = iteration, !.both_limits = both_limits,
                               !.job = calls + 1])
        /\ UNCHANGED <<cli, files>>

\* the check as it would be without the test for tailored_cv.md
GenerateCoverLetterCheckAnalysisOnly(t) ==
    LET r == req[t]
    IN  /\ r.at = "cl_check"
        /\ IF files["job_analysis"].st = "absent"
           THEN Respond(t, r, 400, <<>>)
           ELSE Set(t, [r EXCEPT !.at = "cl_load"])
        /\ UNCHANGED <<cli, files, calls>>

\* api_generate_cover_letter: the two exists() tests
GenerateCoverLetterCheck(t) ==
    LET r == req[t]
    IN  /\ r.at = "cl_check"
        /\ IF files["job_analysis"].st = "absent" \/ files["tailored_cv"].st = "absent"
           THEN Respond(t, r, 400, <<>>)
           ELSE Set(t, [r EXCEPT !.at = "cl_load"])
        /\ UNCHANGED <<cli, files, calls>>

\* api_generate_cover_letter: load_json (json.load raises on a file that is
\* missing or not written yet), load_markdown (open raises on a missing file;
\* a file not written yet reads as the empty text) and _build_length_constraint
GenerateCoverLetterLoad(t) ==
    LET r == req[t]
    IN  /\ r.at = "cl_load"
        /\ IF files["job_analysis"].st # "full" \/ files["tailored_cv"].st = "absent"
           THEN Respond(t, r, 500, <<>>)
           ELSE IF r.both_limits
           THEN Respond(t, r, 400, <<>>)
           ELSE Set(t, [r EXCEPT !.analysis = files["job_analysis"].job,
                                 !.cv_md = files["tailored_cv"].text,
                                 !.at = "cl_generate"])
        /\ UNCHANGED <<cli, files, calls>>

\* api_generate_cover_letter: generate_cover_letter (which may raise) and the
\* open() of _save_text
GenerateCoverLetterGenerate(t) ==
    LET r == req[t]
    IN  /\ r.at = "cl_generate"
        /\ \/ Respond(t, r, 500, <<>>) /\ UNCHANGED files
           \/ /\ Set(t, [r EXCEPT !.at = "cl_write"])
              /\ Write("cover_letter", EmptyFile)
        /\ UNCHANGED <<cli, calls>>

\* api_generate_cover_letter: the write of cover_letter.md, and the return
GenerateCoverLetterWrite(t) ==
    LET r == req[t]
    IN  /\ r.at = "cl_write"
        /\ Write("cover_letter", File("full", None, r.analysis, r.cv_md))
        /\ Respond(t, r, 200, <<>>)
        /\ UNCHANGED <<cli, calls>>

\* POST /api/generate-pdfs is received; cover is (not skip_cover_letter)
ReceiveGeneratePdfs(t, from) ==
    \E skip_cover_letter \in BOOLEAN :
        Receive(t, from, "generate_pdfs", "pdf_load", None, "none", ~skip_cover_letter)

\* _generate_pdfs: job_analysis.json is loaded when it exists (json.load raises on
\* a file not written yet); without the file the name of the PDFs is made from {}
GeneratePdfsLoad(t) ==
    LET r == req[t]
    IN  /\ r.at = "pdf_load"
        /\ IF files["job_analysis"].st = "empty"
           THEN Respond(t, r, 500, <<>>)
           ELSE Set(t, [r EXCEPT !.pdf_job = files["job_analysis"].job, !.at = "pdf_cv"])
        /\ UNCHANGED <<cli, files, calls>>

\* _generate_pdfs, the CV PDF: 400 without tailored_cv.md; else the file is read
\* and made a PDF named after the job analysis (markdown_to_pdf may raise)
GeneratePdfsCv(t) ==
    LET r == req[t]
        cv == files["tailored_cv"]
    IN  /\ r.at = "pdf_cv"
        /\ IF cv.st = "absent"
           THEN Respond(t, r, 400, <<>>) /\ UNCHANGED files
           ELSE \/ Respond(t, r, 500, <<>>) /\ UNCHANGED files
                \/ /\ Write("cv_pdf", File("full", r.pdf_job, cv.of, cv.text))
                   /\ IF r.cover
                      THEN Set(t, [r EXCEPT !.cv_md = cv.text, !.at = "pdf_letter"])
                      ELSE Respond(t, [r EXCEPT !.cv_md = cv.text], 200, <<>>)
        /\ UNCHANGED <<cli, calls>>

\* _generate_pdfs, the cover letter PDF: 400 without cover_letter.md (the CV PDF
\* is written by then); else the file is read and made a PDF
GeneratePdfsLetter(t) ==
    LET r == req[t]
        letter == files["cover_letter"]
    IN  /\ r.at = "pdf_letter"
        /\ IF letter.st = "absent"
           THEN Respond(t, r, 400, <<>>) /\ UNCHANGED files
           ELSE \/ Respond(t, r, 500, <<>>) /\ UNCHANGED files
                \/ /\ Write("cover_letter_pdf", File("full", r.pdf_job, letter.of, letter.text))
                   /\ Respond(t, r, 200, <<>>)
        /\ UNCHANGED <<cli, calls>>

\* the steps of the endpoints
AnalyzeJobSteps(t) ==
    \/ AnalyzeJob(t)
    \/ AnalyzeJobWrite(t)

LoadCvSteps(t) ==
    \/ LoadCv(t)
    \/ LoadCvWrite(t)

GenerateCvSteps(t) ==
    \/ GenerateCvCheck(t)
    \/ GenerateCvLoad(t)
    \/ GenerateCvGenerate(t)
    \/ GenerateCvWrite(t)

GenerateCoverLetterSteps(t) ==
    \/ GenerateCoverLetterCheck(t)
    \/ GenerateCoverLetterLoad(t)
    \/ GenerateCoverLetterGenerate(t)
    \/ GenerateCoverLetterWrite(t)

GeneratePdfsSteps(t) ==
    \/ GeneratePdfsLoad(t)
    \/ GeneratePdfsCv(t)
    \/ GeneratePdfsLetter(t)

GenerateAllSteps(t) ==
    \/ GenerateAllValidate(t)
    \/ GenerateAllStartAnalysis(t)
    \/ GenerateAllReuseAnalysis(t)
    \/ GenerateAllAnalyze(t)
    \/ GenerateAllWriteAnalysis(t)
    \/ GenerateAllLoadCv(t)
    \/ GenerateAllWriteCvDb(t)
    \/ GenerateAllGithub(t)
    \/ GenerateAllWriteCvDbGithub(t)
    \/ GenerateAllGenerateCv(t)
    \/ GenerateAllWriteCv(t)
    \/ GenerateAllWriteGaps(t)
    \/ GenerateAllCoverLetter(t)
    \/ GenerateAllWriteCoverLetter(t)
    \/ GenerateAllPdfs(t)
    \/ GenerateAllMakePdfs(t)

\* requests come one at a time
WebNext ==
    \/ ReceiveAnalyzeJob(FirstThread, Free)
    \/ ReceiveLoadCv(FirstThread, Free)
    \/ ReceiveGenerateCv(FirstThread, Free)
    \/ ReceiveGenerateAll(FirstThread, Free)
    \/ ReceiveGenerateCoverLetter(FirstThread, Free)
    \/ ReceiveGeneratePdfs(FirstThread, Free)
    \/ \E t \in Threads :
           \/ AnalyzeJobSteps(t)
           \/ LoadCvSteps(t)
           \/ GenerateCvSteps(t)
           \/ GenerateAllSteps(t)
           \/ GenerateCoverLetterSteps(t)
           \/ GeneratePdfsSteps(t)

\* the web service serving one request after the other
SpecWeb == WebInit /\ [][WebNext]_vars

\* the service has started on an empty working directory
FreshInit == WebInit /\ \A n \in FileNames : files[n] = NoFile

\* the web service serving one request after the other, from an empty directory
SpecFresh == FreshInit /\ [][WebNext]_vars

\* two requests to analyze-job, load-cv and generate-cv are served at a time
PairNext ==
    \E t \in Threads :
        \/ ReceiveAnalyzeJob(t, Fresh)
        \/ ReceiveLoadCv(t, Fresh)
        \/ ReceiveGenerateCv(t, Fresh)
        \/ AnalyzeJobSteps(t)
        \/ LoadCvSteps(t)
        \/ GenerateCvSteps(t)

\* the web service serving two requests at a time, each on its thread
SpecPair == WebInit /\ [][PairNext]_vars

\* POST /api/generate-all is received with a job text, for a first iteration
\* and without cover letter
ReceiveFirstGenerateAll(t, from) ==
    Receive(t, from, "generate_all", "ga_validate", None, "text", FALSE)

\* two such generate-all requests are served at a time
TwoStreamsNext ==
    \E t \in Threads :
        \/ ReceiveFirstGenerateAll(t, Fresh)
        \/ GenerateAllValidate(t)
        \/ GenerateAllStartAnalysis(t)
        \/ GenerateAllAnalyze(t)
        \/ GenerateAllWriteAnalysis(t)
        \/ GenerateAllLoadCv(t)
        \/ GenerateAllWriteCvDb(t)
        \/ GenerateAllGithub(t)
        \/ GenerateAllWriteCvDbGithub(t)
        \/ GenerateAllGenerateCv(t)
        \/ GenerateAllWriteCv(t)
        \/ GenerateAllWriteGaps(t)
        \/ GenerateAllPdfs(t)
        \/ GenerateAllMakePdfs(t)

\* the web service streaming two generate-all responses at a time
SpecTwoStreams == WebInit /\ [][TwoStreamsNext]_vars

\* a generate-all request is served while another thread serves a request to
\* analyze-job, load-cv or generate-cv
StreamNext ==
    \/ ReceiveGenerateAll(FirstThread, Fresh)
    \/ \E t \in Threads \ {FirstThread} :
           \/ ReceiveAnalyzeJob(t, Fresh)
           \/ ReceiveLoadCv(t, Fresh)
           \/ ReceiveGenerateCv(t, Fresh)
    \/ \E t \in Threads :
           \/ AnalyzeJobSteps(t)
           \/ LoadCvSteps(t)
           \/ GenerateCvSteps(t)
           \/ GenerateAllSteps(t)

\* the web service streaming a generate-all response next to another request
SpecStream == WebInit /\ [][StreamNext]_vars

\* ------------------------------------------------- vocabulary of the claims

\* p occurs in s (at some position)
Occurs(s, p) == \E i \in 0..(Len(s) - Len(p)) : MatchesAt(s, p, i)

\* the positions at which p occurs in s
Positions(s, p) == {i \in 0..(Len(s) - Len(p)) : MatchesAt(s, p, i)}

\* the position of the leftmost occurrence of p in s, for a p that occurs in s
FirstPos(s, p) == CHOOSE i \in Positions(s, p) : \A j \in Positions(s, p) : i <= j

\* s begins with p
StartsWith(s, p) == MatchesAt(s, p, 0)

\* the positions of s that hold a character other than whitespace
Inked(s) == {i \in 1..Len(s) : s[i] \notin Whitespace}

\* s without the whitespace at its two ends
Trimmed(s) ==
    IF Inked(s) = {} THEN <<>>
    ELSE SubSeq(s, CHOOSE i \in Inked(s) : \A j \in Inked(s) : i <= j,
                   CHOOSE i \in Inked(s) : \A j \in Inked(s) : j <= i)

\* s without the whitespace at its end
TrimmedEnd(s) ==
    IF Inked(s) = {} THEN <<>>
    ELSE SubSeq(s, 1, CHOOSE i \in Inked(s) : \A j \in Inked(s) : j <= i)

\* s without its whitespace characters
NonWs(s) == SelectSeq(s, LAMBDA c : c \notin Whitespace)

\* forbidden pattern k occurs in s, letter case ignored
OccursNoCase(s, k) == Occurs(Lower(s), forbidden_patterns[k])

\* some forbidden pattern occurs in s, letter case ignored
AnyForbidden(s) == \E k \in 1..Len(forbidden_patterns) : OccursNoCase(s, k)

\* some Layer-2 marker occurs in s
AnyMarker(s) == \E k \in 1..Len(gap_markers) : Occurs(s, gap_markers[k])

HasSeparator == Occurs(tailored_cv, DETERMINISTIC_SEPARATOR)

\* the input before and after the first separator token
BeforeSeparator == Slice(tailored_cv, 0, FirstPos(tailored_cv, DETERMINISTIC_SEPARATOR))

AfterSeparator ==
    Slice(tailored_cv,
          FirstPos(tailored_cv, DETERMINISTIC_SEPARATOR) + Len(DETERMINISTIC_SEPARATOR),
          Len(tailored_cv))

\* Layer 3 cut the CV in this run
Layer3Fired == pc \in {"save", "done"} /\ scanned[3] # split_method

\* <<cv_content, gap_analysis, split_method>> as Layers 1-2 left them
PostSplit == IF pc = "layer3" THEN <<cv_content, gap_analysis, split_method>> ELSE scanned

\* forbidden pattern k occurs in s at position i, letter case ignored
NoCaseAt(s, k, i) ==
    /\ LowerChar(s[i + 1])[1] = forbidden_patterns[k][1]
    /\ StartsWith(Lower(Slice(s, i, i + Len(forbidden_patterns[k]))), forbidden_patterns[k])

\* the <<position, pattern>> pairs of the forbidden patterns occurring in s
NoCaseHits(s) ==
    {h \in (0..(Len(s) - 1)) \X (1..Len(forbidden_patterns)) : NoCaseAt(s, h[2], h[1])}

\* the hit at the earliest position, the earlier pattern of the list on a tie
EarliestHit(s) ==
    CHOOSE h \in NoCaseHits(s) :
        \A g \in NoCaseHits(s) : h[1] < g[1] \/ (h[1] = g[1] /\ h[2] <= g[2])

\* where the line holding position i of s starts
LineOf(s, i) ==
    LET breaks == {j \in 0..(i - 1) : s[j + 1] = "\n"}
    IN  IF breaks = {} THEN 0 ELSE 1 + CHOOSE j \in breaks : \A b \in breaks : b <= j

\* the index of the first marker of the list that occurs in s, for an s holding one
FirstListed(s) ==
    CHOOSE k \in 1..Len(gap_markers) :
        /\ Occurs(s, gap_markers[k])
        /\ \A j \in 1..(k - 1) : ~Occurs(s, gap_markers[j])

\* ------------------------------------------------------------------ claims

\* C1: the final cv_content holds no forbidden pattern, letter case ignored; every
\* forbidden pattern that occurred in the cv_content Layers 1-2 produced is gone
\* from the final cv_content and is found in gap_analysis.
C1_NoForbiddenInFinalCv ==
    pc = "done" =>
        /\ ~AnyForbidden(out_cv[1])
        /\ \A k \in 1..Len(forbidden_patterns) :
               OccursNoCase(scanned[1], k) => OccursNoCase(out_gaps[1], k)

\* what C2 promises of an input: the CV written is the trimmed text before the
\* token, the gap analysis is the fixed heading followed by the trimmed text after it
C2_Promise ==
    /\ out_cv[1] = Trimmed(BeforeSeparator)
    /\ StartsWith(out_gaps[1], GapHeading \o Trimmed(AfterSeparator))

\* C2 as stated: for every input holding the separator token exactly once,
\* cv_content is the trimmed text before the token and gap_analysis starts with
\* the fixed heading followed by the trimmed text after the token.
C2_Original ==
    (pc = "done" /\ Cardinality(Positions(tailored_cv, DETERMINISTIC_SEPARATOR)) = 1)
        => C2_Promise

\* C2 as amended: the same, for the inputs whose text before the token holds no
\* forbidden pattern (letter case ignored), so that Layer 3 leaves the split alone.
C2_SeparatorSplit ==
    (/\ pc = "done"
     /\ Cardinality(Positions(tailored_cv, DETERMINISTIC_SEPARATOR)) = 1
     /\ ~AnyForbidden(BeforeSeparator))
        => C2_Promise

\* a run that split at the only token, with text to trim on both sides of it
C2_Witness ==
    /\ pc = "done"
    /\ Cardinality(Positions(tailored_cv, DETERMINISTIC_SEPARATOR)) = 1
    /\ ~AnyForbidden(BeforeSeparator)
    /\ Trimmed(BeforeSeparator) # BeforeSeparator
    /\ Trimmed(BeforeSeparator) # <<>>
    /\ Trimmed(AfterSeparator) # AfterSeparator
    /\ Trimmed(AfterSeparator) # <<>>

\* C3: with no separator token, Layer 2 splits at the first marker in list order
\* that occurs in the text, wherever the other markers are: cv_content is the text
\* before that marker's first occurrence, gap_analysis the text from the marker on
\* (the marker kept), method "marker:<that marker>"; an input with "## Gap Analysis"
\* is split at "## Gap Analysis".
C3_ListOrderWins ==
    (pc # "layer12" /\ ~HasSeparator /\ AnyMarker(tailored_cv)) =>
        LET marker == gap_markers[FirstListed(tailored_cv)]
            at == FirstPos(tailored_cv, marker)
        IN  /\ PostSplit[1] = Slice(tailored_cv, 0, at)
            /\ PostSplit[2] = Slice(tailored_cv, at, Len(tailored_cv))
            /\ StartsWith(PostSplit[2], marker)
            /\ PostSplit[3] = MarkerPrefix \o marker
            /\ StartsWith(split_method, MarkerPrefix \o marker)
            /\ Occurs(tailored_cv, gap_markers[1]) => marker = gap_markers[1]

\* Layer 2 has split at "## Gap Analysis" although a marker later in the list
\* occurs earlier in the text
C3_Witness ==
    /\ pc = "layer3"
    /\ ~HasSeparator
    /\ Occurs(tailored_cv, gap_markers[1])
    /\ \E j \in 2..Len(gap_markers) :
           /\ Occurs(tailored_cv, gap_markers[j])
           /\ FirstPos(tailored_cv, gap_markers[j]) < FirstPos(tailored_cv, gap_markers[1])
    /\ split_method = MarkerPrefix \o gap_markers[1]

\* C4: when a forbidden pattern occurs in the cv_content Layers 1-2 produced,
\* Layer 3 takes the occurrence at the earliest position (list order on a tie),
\* cuts cv_content at the start of the line holding it and appends
\* "+layer3_strip:<that pattern>" to method.
C4_EarliestLineCut ==
    (pc \in {"save", "done"} /\ NoCaseHits(scanned[1]) # {}) =>
        LET hit == EarliestHit(scanned[1])
        IN  /\ Trimmed(cv_content) = Trimmed(Slice(scanned[1], 0, LineOf(scanned[1], hit[1])))
            /\ split_method = scanned[3] \o Layer3Prefix \o forbidden_patterns[hit[2]]

\* C5: when the input holds the separator token and a forbidden pattern occurs
\* before the token, Layer 3 cuts the cv_content Layer 1 produced at that
\* pattern's line and method is "deterministic_separator+layer3_strip:<pattern>".
C5_Layer3AfterSeparator ==
    (pc \in {"save", "done"} /\ HasSeparator /\ AnyForbidden(BeforeSeparator)) =>
        \E k \in 1..Len(forbidden_patterns) :
            /\ OccursNoCase(BeforeSeparator, k)
            /\ split_method = MethodSeparator \o Layer3Prefix \o forbidden_patterns[k]
            /\ ~OccursNoCase(cv_content, k)
            /\ Len(cv_content) < Len(BeforeSeparator)
            /\ StartsWith(BeforeSeparator, cv_content)

\* C6: for every input holding the separator token, Layer 1 decides the split:
\* cv_content is the text before the token even when a marker occurs before it,
\* and method never starts with "marker:".
C6_SeparatorPreemptsMarkers ==
    (pc # "layer12" /\ HasSeparator) =>
        /\ PostSplit[1] = BeforeSeparator
        /\ PostSplit[3] = MethodSeparator
        /\ ~StartsWith(split_method, MarkerPrefix)

\* a finished run on an input with a marker before the separator token
C6_Witness ==
    /\ pc = "done"
    /\ HasSeparator
    /\ AnyMarker(BeforeSeparator)
    /\ StartsWith(split_method, MethodSeparator)

\* what C7 promises of an input: method "none", the CV written is the trimmed input
C7_Promise ==
    /\ split_method = MethodNone
    /\ out_cv[1] = Trimmed(tailored_cv)

\* C7 as stated: for every input with neither the separator token nor a Layer-2
\* marker, method is "none" and cv_content is the trimmed whole input.
C7_Original ==
    (pc = "done" /\ ~HasSeparator /\ ~AnyMarker(tailored_cv)) => C7_Promise

\* C7 as amended: the same, for the inputs that hold no forbidden pattern either
\* (letter case ignored).
C7_NoSplit ==
    (pc = "done" /\ ~HasSeparator /\ ~AnyMarker(tailored_cv) /\ ~AnyForbidden(tailored_cv))
        => C7_Promise

\* a finished run on such an input, with text to trim at both ends
C7_Witness ==
    /\ pc = "done"
    /\ ~HasSeparator /\ ~AnyMarker(tailored_cv) /\ ~AnyForbidden(tailored_cv)
    /\ tailored_cv # <<>>
    /\ tailored_cv[1] \in Whitespace
    /\ tailored_cv[Len(tailored_cv)] \in Whitespace
    /\ out_cv[1] # <<>>

\* C8: for scenario 1 (CV text, the separator token on its own line, a section
\* beginning with "## Gap Analysis") the result is the trimmed CV text, the section
\* itself with its heading once, and method "deterministic_separator"; likewise for
\* every input whose text after the token begins with that heading.
C8_HeadingOnce ==
    /\ (pc = "done" /\ tailored_cv = Scenario1) =>
           /\ out_cv[1] = Scenario1Cv
           /\ out_gaps[1] = Scenario1Gap
           /\ split_method = MethodSeparator
    /\ (/\ pc = "done"
        /\ HasSeparator
        /\ ~AnyForbidden(BeforeSeparator)
        /\ StartsWith(Trimmed(AfterSeparator), gap_markers[1])) =>
           out_gaps[1] = Trimmed(AfterSeparator)

\* C9: nothing is lost.  The non-whitespace characters of cv_content followed by
\* those of gap_analysis are those of the input in order, the consumed separator
\* token replaced by the fixed heading (Layer 1), or followed by the placeholder
\* (no split point); and what Layer 3 cut from cv_content stands in gap_analysis
\* before the gap text of Layers 1-2.
C9_TotalPartition ==
    pc = "done" =>
        /\ NonWs(out_cv[1]) \o NonWs(out_gaps[1]) =
               IF HasSeparator
               THEN NonWs(BeforeSeparator) \o NonWs(GapHeading) \o NonWs(AfterSeparator)
               ELSE IF AnyMarker(tailored_cv)
               THEN NonWs(tailored_cv)
               ELSE NonWs(tailored_cv) \o NonWs(DefaultGapAnalysis)
        /\ Layer3Fired =>
               \E n \in 0..Len(scanned[1]) :
                   /\ cv_content = TrimmedEnd(Slice(scanned[1], 0, n))
                   /\ gap_analysis =
                          Trimmed(Slice(scanned[1], n, Len(scanned[1]))) \o BlankLine \o scanned[2]

\* a finished run in which Layer 1 split and Layer 3 cut a CV that keeps text
C9_Witness ==
    /\ pc = "done"
    /\ HasSeparator
    /\ Layer3Fired
    /\ out_cv[1] # <<>>
    /\ Trimmed(AfterSeparator) # <<>>

\* the result C10 names for an empty or whitespace-only input
C10_BlankResult ==
    (pc = "done" /\ \A i \in 1..Len(tailored_cv) : tailored_cv[i] \in Whitespace) =>
        /\ out_cv[1] = <<>>
        /\ out_gaps[1] = DefaultGapAnalysis
        /\ split_method = MethodNone

\* C10: the splitter is total: on no input does a step raise an exception, a
\* finished run has written both results, and for an empty or whitespace-only
\* input the result is an empty cv_content, the placeholder as gap_analysis and
\* method "none".
C10_Total ==
    /\ pc # "raised"
    /\ pc = "done" => Len(out_cv) = 1 /\ Len(out_gaps) = 1
    /\ C10_BlankResult

\* a finished run on a whitespace-only input that is not empty
C10_Witness ==
    /\ pc = "done"
    /\ tailored_cv # <<>>
    /\ \A i \in 1..Len(tailored_cv) : tailored_cv[i] \in Whitespace
    /\ out_cv = << <<>> >>

\* C11: Layer 2 matches markers verbatim, so an input that holds a marker only in
\* another letter case is not split by Layer 2; Layer 3 matches the forbidden
\* patterns whatever their letter case, and the text it moves to gap_analysis is
\* the original text, casing kept, from the start of the line of the match on.
C11_CaseRules ==
    /\ (pc # "layer12" /\ ~HasSeparator /\ ~AnyMarker(tailored_cv)) =>
           PostSplit = <<tailored_cv, DefaultGapAnalysis, MethodNone>>
    /\ (pc \in {"save", "done"} /\ NoCaseHits(scanned[1]) # {}) =>
           LET at == LineOf(scanned[1], EarliestHit(scanned[1])[1])
           IN  /\ Layer3Fired
               /\ gap_analysis =
                      Trimmed(Slice(scanned[1], at, Len(scanned[1]))) \o BlankLine \o scanned[2]

\* C12: when the input holds the separator token more than once, Layer 1 splits at
\* the first occurrence: the cv_content it produces is the text before the first
\* token, the gap analysis it produces is the heading and the trimmed text after
\* that token, and each later token is still in gap_analysis, in the saved one too.
C12_FirstTokenSplits ==
    (pc \notin {"layer12", "raised"}
     /\ Cardinality(Positions(tailored_cv, DETERMINISTIC_SEPARATOR)) > 1) =>
        /\ PostSplit[1] = BeforeSeparator
        /\ PostSplit[2] = GapHeading \o Trimmed(AfterSeparator)
        /\ PostSplit[3] = MethodSeparator
        /\ Positions(PostSplit[1], DETERMINISTIC_SEPARATOR) = {}
        /\ Cardinality(Positions(gap_analysis, DETERMINISTIC_SEPARATOR))
               = Cardinality(Positions(tailored_cv, DETERMINISTIC_SEPARATOR)) - 1
        /\ pc = "done" =>
               Cardinality(Positions(out_gaps[1], DETERMINISTIC_SEPARATOR))
                   = Cardinality(Positions(tailored_cv, DETERMINISTIC_SEPARATOR)) - 1

\* a finished run on an input with two tokens and text before the first, between
\* the two and after the second
C12_Witness ==
    /\ pc = "done"
    /\ Cardinality(Positions(tailored_cv, DETERMINISTIC_SEPARATOR)) = 2
    /\ BeforeSeparator # <<>>
    /\ Positions(AfterSeparator, DETERMINISTIC_SEPARATOR) # {}
    /\ ~StartsWith(AfterSeparator, DETERMINISTIC_SEPARATOR)
    /\ split_method = MethodSeparator

\* C13: when the cv_content Layers 1-2 produced holds no forbidden pattern (letter
\* case ignored), Layer 3 leaves cv_content, gap_analysis and method as they were;
\* an input with no separator token, no marker and no forbidden pattern ends with
\* the placeholder as gap_analysis, the whole trimmed input as CV and method "none".
C13_Layer3NoOp ==
    /\ (pc \in {"save", "done"} /\ ~AnyForbidden(scanned[1])) =>
           <<cv_content, gap_analysis, split_method>> = scanned
    /\ (pc = "done" /\ ~HasSeparator /\ ~AnyMarker(tailored_cv)
        /\ ~AnyForbidden(tailored_cv)) =>
           /\ out_gaps[1] = DefaultGapAnalysis
           /\ out_cv[1] = Trimmed(tailored_cv)
           /\ split_method = MethodNone

\* Layer 3 has passed over a cv_content that Layer 1 or 2 cut from the input, that
\* ends in whitespace and holds no forbidden pattern
C13_Witness ==
    /\ pc = "save"
    /\ ~AnyForbidden(scanned[1])
    /\ scanned[3] # MethodNone
    /\ Inked(scanned[1]) # {}
    /\ scanned[1] # TrimmedEnd(scanned[1])
    /\ cv_content = scanned[1]

\* C14: gap_analysis is never empty, whatever the input and whichever layers fire:
\* at every point of a run it holds a character other than whitespace, and so does
\* the gap analysis that is saved.
C14_GapNeverEmpty ==
    /\ gap_analysis # <<>>
    /\ Inked(gap_analysis) # {}
    /\ pc = "done" => (out_gaps[1] # <<>> /\ Inked(out_gaps[1]) # {})

\* a finished run in which Layer 2 split at a marker that ends the input, so that
\* the gap analysis saved is the marker alone
C14_Witness ==
    /\ pc = "done"
    /\ ~HasSeparator
    /\ AnyMarker(tailored_cv)
    /\ scanned[1] # <<>>
    /\ out_gaps[1] = gap_markers[FirstListed(tailored_cv)]

\* what C17 promises of a second run: nothing is left on the CV side, and the gap
\* analysis saved is the text fed in, so nothing was added, cut or moved
C17_Promise ==
    /\ out_cv[1] = <<>>
    /\ out_gaps[1] = tailored_cv

\* C17 as stated: a run on the gap analysis an earlier run saved leaves the whole
\* text on the gap-analysis side: its cv_content is empty and its gap_analysis is
\* the text fed in.
C17_Original ==
    (pc = "done" /\ fed_from # <<>>) => C17_Promise

\* C17 as amended: the same, for a gap analysis that holds no separator token and
\* comes from a run in which Layer 3 moved nothing; Layer 3 moves nothing in the
\* second run either.
C17_RerunKeepsGapText ==
    (/\ pc = "done"
     /\ fed_from # <<>>
     /\ Positions(fed_from[1], Layer3Prefix) = {}
     /\ Positions(tailored_cv, DETERMINISTIC_SEPARATOR) = {})
        => (C17_Promise /\ ~Layer3Fired)

\* a second run has finished on a gap analysis that Layer 1 or Layer 2 cut from a
\* longer response
C17_Witness ==
    /\ pc = "done"
    /\ fed_from # <<>>
    /\ fed_from[1] # MethodNone
    /\ Positions(fed_from[1], Layer3Prefix) = {}
    /\ Positions(tailored_cv, DETERMINISTIC_SEPARATOR) = {}
    /\ Len(tailored_cv) > Len(GapHeading)
    /\ out_gaps[1] = tailored_cv

\* ------------------------------------------ vocabulary of the web claims

\* raw holds the separator token once, on a line of its own, with text before
\* and after that line
HonoursContract(raw) ==
    /\ Cardinality(Positions(raw, DETERMINISTIC_SEPARATOR)) = 1
    /\ LET p == FirstPos(raw, DETERMINISTIC_SEPARATOR)
       IN  /\ p > 1
           /\ raw[p] = "\n"
           /\ p + Len(DETERMINISTIC_SEPARATOR) + 1 < Len(raw)
           /\ raw[p + Len(DETERMINISTIC_SEPARATOR) + 1] = "\n"

\* thread t has served a request to endpoint ep and has answered 200
Served(t, ep) == req[t].ep = ep /\ req[t].at = "closed" /\ req[t].status = 200

\* C15: when the response that generate-cv got from the LLM honours the contract,
\* the cv_markdown it returns holds no separator token and is the trimmed start of
\* the text before the token, and tailored_cv.md holds that same text.
C15_WebCvEndsAtSeparator ==
    \A t \in Threads :
        (Served(t, "generate_cv") /\ HonoursContract(req[t].raw_cv)) =>
            /\ ~Occurs(req[t].body[1], DETERMINISTIC_SEPARATOR)
            /\ \E k \in 0..FirstPos(req[t].raw_cv, DETERMINISTIC_SEPARATOR) :
                   req[t].body[1] = Trimmed(Slice(req[t].raw_cv, 0, k))
            /\ files["tailored_cv"].text = req[t].body[1]

\* the first marker of the web list that occurs in raw, for a raw holding one
FirstWebMarker(raw) ==
    web_gap_markers[CHOOSE k \in 1..Len(web_gap_markers) :
                        /\ Occurs(raw, web_gap_markers[k])
                        /\ \A j \in 1..(k - 1) : ~Occurs(raw, web_gap_markers[j])]

\* what one call of the web splitter on raw returns, when nothing else runs
SoloSplit(raw) ==
    IF \E k \in 1..Len(web_gap_markers) : Occurs(raw, web_gap_markers[k])
    THEN LET at == FirstPos(raw, FirstWebMarker(raw))
         IN  <<Trimmed(Slice(raw, 0, at)), Trimmed(Slice(raw, at, Len(raw)))>>
    ELSE <<Trimmed(raw), WebNoGaps>>

\* C16: whatever the interleaving of two requests, the pair a generate-cv request
\* returns is what one call of the splitter on its own LLM response returns.
C16_SplitterIsolated ==
    \A t \in Threads : Served(t, "generate_cv") => req[t].body = SoloSplit(req[t].raw_cv)

\* a generate-cv request has returned while an earlier generate-cv request, which
\* has split another response, has not yet written its files
C16_Witness ==
    \E t, u \in Threads :
        /\ Served(t, "generate_cv")
        /\ req[u].ep = "generate_cv"
        /\ req[u].at = "cv_write"
        /\ req[u].job < req[t].job
        /\ req[u].raw_cv # req[t].raw_cv
        /\ req[t].body[1] # req[u].cv_content

\* the events that end a stream
Terminal == {"complete", "error"}

\* thread t serves a generate-all request whose stream has been started
Streaming(t) == req[t].ep = "generate_all" /\ req[t].status = 200

\* C18: a generate-all stream that has ended has a terminal event, complete or
\* error, as its last event; no event of a stream follows a terminal event and no
\* step runs after one; complete comes only after the CV was generated by this
\* request and its PDF was made.
C18_OneTerminalEvent ==
    \A t \in Threads :
        Streaming(t) =>
            LET events == req[t].events
            IN  /\ req[t].at = "closed" =>
                       (events # <<>> /\ events[Len(events)][1] \in Terminal)
                /\ \A i \in 1..(Len(events) - 1) : events[i][1] \notin Terminal
                /\ (events # <<>> /\ events[Len(events)][1] \in Terminal) => req[t].at = "closed"
                /\ (events # <<>> /\ events[Len(events)][1] = "complete") =>
                       /\ \E i \in 1..Len(events) : events[i] = <<"step_result", "generating_cv">>
                       /\ files["cv_pdf"].st = "full"

\* thread t serves a generate-all request with iteration > 1
Refining(t) ==
    /\ req[t].ep = "generate_all"
    /\ req[t].iteration # None
    /\ req[t].iteration > 1

\* C19: a generate-all request with iteration > 1 makes no scrape and no LLM job
\* analysis and no step of it changes job_analysis.json; the analysis it works
\* with is the one stored when its stream started, never one of its own job: the
\* CV and the cover letter it writes are written for that analysis, and its PDFs
\* are named after the analysis stored when they are made.
C19_RefinementSkipsAnalysis ==
    /\ [](\A t \in Threads :
            Refining(t) =>
                /\ ~req[t].scraped
                /\ ~req[t].analysed
                /\ req[t].analysis # req[t].job
                /\ req[t].pdf_job # req[t].job
                /\ \A i \in 1..Len(req[t].events) :
                       req[t].events[i] # <<"progress", "analyzing_job">>)
    /\ [][\A t \in Threads :
            (Refining(t) /\ req'[t] # req[t]) =>
                /\ files'["job_analysis"] = files["job_analysis"]
                /\ (req[t].at = "ga_start" /\ req'[t].at # "closed") =>
                       req'[t].analysis = files["job_analysis"].job
                /\ req[t].at \notin {"ga_validate", "ga_start"} =>
                       req'[t].analysis = req[t].analysis
                /\ files'["tailored_cv"] \in
                       {files["tailored_cv"], EmptyFile,
                        File("full", None, req[t].analysis, req[t].cv_content)}
                /\ files'["cover_letter"] \in
                       {files["cover_letter"], EmptyFile,
                        File("full", None, req[t].analysis, req[t].cv_content)}
                /\ req[t].at = "ga_pdfs" =>
                       req'[t].pdf_job = files["job_analysis"].job]_vars

\* a refinement with a cover letter has run to its complete event on the analysis
\* an earlier run had stored
C19_Witness ==
    \E t \in Threads :
        /\ Refining(t)
        /\ req[t].cover
        /\ req[t].at = "closed"
        /\ req[t].analysis = PriorJob
        /\ req[t].events # <<>>
        /\ req[t].events[Len(req[t].events)] = <<"complete", "creating_pdfs">>
        /\ files["cover_letter_pdf"].st = "full"

\* the request of thread t is one that generate-all must reject: iteration <= 1
\* with neither url nor text, or iteration > 1 with no job_analysis.json
MustReject(t) ==
    \/ (req[t].iteration = None \/ req[t].iteration <= 1) /\ req[t].source = "none"
    \/ Refining(t) /\ files["job_analysis"].st = "absent"

\* C20: the validation step of such a generate-all request answers 400, ends the
\* request with no event streamed and leaves every file as it was; a request
\* answered 400 has streamed nothing and does nothing more.
C20_RejectedBeforeStream ==
    /\ [][\A t \in Threads :
            (req[t].ep = "generate_all" /\ req[t].at = "ga_validate" /\ req'[t] # req[t]
             /\ MustReject(t)) =>
                /\ req'[t].status = 400
                /\ req'[t].at = "closed"
                /\ req'[t].events = <<>>
                /\ files' = files]_vars
    /\ [](\A t \in Threads :
            (req[t].ep = "generate_all" /\ req[t].status = 400) =>
                (req[t].at = "closed" /\ req[t].events = <<>>))
    /\ [](\A t \in Threads :
            (req[t].ep = "generate_all" /\ req[t].at = "ga_validate") =>
                (req[t].events = <<>> /\ req[t].status = None))

\* a refinement was rejected for want of a job analysis, all files still absent
C20_Witness ==
    \E t \in Threads :
        /\ Refining(t)
        /\ req[t].status = 400
        /\ \A n \in FileNames : files[n].st = "absent"

\* ------------------------------------- claims about the stored files

\* file n has been stored: the working directory holds it
Stored(n) == files[n].st # "absent"

\* the CV texts a generation step can write
CvTexts == {split_cv_and_gaps(raw)[1] : raw \in RawResponses}

\* C21: from an empty working directory, with requests served one after the
\* other, a generate-cv request gets past its check or is answered anything but
\* 400 only when job_analysis.json and cv_database.json have been stored, a
\* generate-cover-letter request only when job_analysis.json and tailored_cv.md
\* have been, a generate-pdfs request writes a PDF only when tailored_cv.md has
\* been; a cover letter or a PDF on disk was made from a CV that a generation step
\* has written.
C21_GatedByStoredFiles ==
    /\ \A t \in Threads :
           LET r == req[t]
           IN  /\ (r.ep = "generate_cv" /\ r.at # "cv_check" /\ r.status # 400) =>
                      (Stored("job_analysis") /\ Stored("cv_database"))
               /\ (r.ep = "generate_cover_letter" /\ r.at # "cl_check" /\ r.status # 400) =>
                      (Stored("job_analysis") /\ Stored("tailored_cv"))
               /\ (r.ep = "generate_pdfs" /\ r.at \notin {"pdf_load", "pdf_cv"}
                   /\ r.status # 400) =>
                      Stored("tailored_cv")
    /\ \A n \in {"cover_letter", "cv_pdf", "cover_letter_pdf"} :
           Stored(n) =>
               /\ Stored("tailored_cv")
               /\ files[n].st = "full" => files[n].text \in CvTexts
    /\ Stored("cv_pdf") => files["cv_pdf"].of # None

\* a generate-cover-letter request was answered 400 with a job analysis stored and
\* no tailored CV yet
C21_Witness ==
    \E t \in Threads :
        /\ req[t].ep = "generate_cover_letter"
        /\ req[t].at = "closed"
        /\ req[t].status = 400
        /\ ~req[t].both_limits
        /\ files["job_analysis"].st = "full"
        /\ ~Stored("tailored_cv")
        /\ ~Stored("cover_letter")

\* the positions of event e in the stream of thread t
EventAt(t, e) == {i \in 1..Len(req[t].events) : req[t].events[i] = e}

\* the GitHub step of the stream of thread t has failed: _fetch_github_projects
\* has returned an error message, or has been left by an exception it does not
\* catch
GithubFailed(t) ==
    /\ Streaming(t)
    /\ EventAt(t, <<"progress", "fetching_github">>) # {}
    /\ req[t].gh_error \/ req[t].at = "exited"

\* C22: when the GitHub step of a generate-all stream fails, the stream has no
\* error event for fetching_github, the progress event of the step is followed at
\* once by its step_result event, the request holds no GitHub project (the CV
\* database handed to the CV step has no github_projects entry), and the request
\* goes on to the CV step.
C22_GithubFailureNotFatal ==
    \A t \in Threads :
        GithubFailed(t) =>
            LET events == req[t].events
                i == CHOOSE k \in EventAt(t, <<"progress", "fetching_github">>) : TRUE
            IN  /\ EventAt(t, <<"error", "fetching_github">>) = {}
                /\ i < Len(events)
                /\ events[i + 1] = <<"step_result", "fetching_github">>
                /\ req[t].github_projects = None
                /\ \/ req[t].at = "ga_generate_cv"
                   \/ /\ i + 2 <= Len(events)
                      /\ events[i + 2] = <<"progress", "generating_cv">>

\* C22 for the failures that _fetch_github_projects catches
C22_CaughtFailureNotFatal ==
    \A t \in Threads :
        (GithubFailed(t) /\ req[t].gh_error) =>
            LET events == req[t].events
                i == CHOOSE k \in EventAt(t, <<"progress", "fetching_github">>) : TRUE
            IN  /\ EventAt(t, <<"error", "fetching_github">>) = {}
                /\ i < Len(events)
                /\ events[i + 1] = <<"step_result", "fetching_github">>
                /\ req[t].github_projects = None
                /\ \/ req[t].at = "ga_generate_cv"
                   \/ /\ i + 2 <= Len(events)
                      /\ events[i + 2] = <<"progress", "generating_cv">>

\* the events that may answer a progress event
Answers == {"step_result", "complete", "error"}

\* C23: in a generate-all stream every step_result event comes right after the
\* progress event of the same step, and every progress event is followed at once
\* by a step_result, complete or error event of the same step (a stream that
\* has ended does not end with a progress event).
C23_ProgressThenResult ==
    \A t \in Threads :
        Streaming(t) =>
            LET events == req[t].events
            IN  \A i \in 1..Len(events) :
                    /\ events[i][1] = "step_result" =>
                           (i > 1 /\ events[i - 1] = <<"progress", events[i][2]>>)
                    /\ (events[i][1] = "progress" /\ i < Len(events)) =>
                           (events[i + 1][1] \in Answers /\ events[i + 1][2] = events[i][2])
                    /\ (events[i][1] = "progress" /\ i = Len(events)) =>
                           req[t].at \notin {"closed", "exited"}

\* C23 for the steps other than loading_cv, in a stream that runs the job
\* analysis and is not left by SystemExit
C23_OtherSteps ==
    \A t \in Threads :
        (Streaming(t) /\ ~Refining(t) /\ req[t].at # "exited") =>
            LET events == req[t].events
            IN  \A i \in 1..Len(events) :
                    /\ events[i][1] = "step_result" =>
                           (i > 1 /\ events[i - 1] = <<"progress", events[i][2]>>)
                    /\ (events[i][1] = "progress" /\ i < Len(events)
                        /\ events[i][2] # "loading_cv") =>
                           (events[i + 1][1] \in Answers /\ events[i + 1][2] = events[i][2])
                    /\ (events[i][1] = "progress" /\ i = Len(events)) =>
                           req[t].at # "closed"

\* --------------------------- fetch_github_repos.py: fetch_all_repos

\* CACHE_MAX_AGE, in seconds
CACHE_MAX_AGE == 86400

\* calls of fetch_all_repos in a run of the model
MaxRuns == 2

\* times the clock is moved
MaxTicks == 2

\* pages GitHub lists the repositories in
MaxPages == 2

\* a repository as GET /user/repos lists it; pushed stands for pushed_at
Repo(name, pushed, archived, fork) ==
    [name |-> name, pushed |-> pushed, archived |-> archived, fork |-> fork]

App == Repo("app", 3, FALSE, FALSE)

Lib == Repo("lib", 2, FALSE, FALSE)

Old == Repo("old", 1, TRUE, FALSE)

Forked == Repo("forked", 4, FALSE, TRUE)

\* the pages GitHub may answer with
Pages == {<<>>, <<App>>, <<Lib, Forked>>, <<Old, App>>}

\* seconds by which the clock is moved
TickSizes == {1, CACHE_MAX_AGE - 1}

\* results.sort(key = last_activity, reverse = True): stable, latest first
RECURSIVE SortByPushed(_)
SortByPushed(repos) ==
    IF repos = <<>> THEN <<>>
    ELSE LET head == repos[1]
             rest == SortByPushed(Tail(repos))
             before == SelectSeq(rest, LAMBDA r : r.pushed > head.pushed)
             after == SelectSeq(rest, LAMBDA r : r.pushed <= head.pushed)
         IN  before \o <<head>> \o after

\* the cache file .tmp/github_repos.json
CacheFile(st, mtime, repos) == [st |-> st, mtime |-> mtime, repos |-> repos]

\* no call of fetch_all_repos is running
NoCall ==
    [at |-> "idle", force |-> FALSE, token |-> FALSE, age |-> 0, pages |-> 0,
     all_repos |-> <<>>, results |-> <<>>, requests |-> 0]

\* the variables fetch_all_repos leaves alone
others == <<pc, tailored_cv, cv_content, gap_analysis, split_method, scanned, out_cv, out_gaps,
            fed_from, web>>

\* before the first call: there is no cache file, or one written at time 0
CacheInit ==
    /\ pc = "off"
    /\ tailored_cv = <<>>
    /\ cv_content = <<>>
    /\ gap_analysis = <<>>
    /\ split_method = <<>>
    /\ scanned = <<>>
    /\ out_cv = <<>>
    /\ out_gaps = <<>>
    /\ fed_from = <<>>
    /\ files = <<>>
    /\ req = <<>>
    /\ calls = 0
    /\ \E cache \in {CacheFile("absent", 0, <<>>), CacheFile("full", 0, <<Lib>>)} :
           github = [cache |-> cache, now |-> 0, ticks |-> 0, runs |-> 0, call |-> NoCall]

\* the running call with the fields of c
SetCall(c) == github' = [github EXCEPT !.call = c]

\* time passes
Tick ==
    /\ github.ticks < MaxTicks
    /\ \E d \in TickSizes :
           github' = [github EXCEPT !.now = @ + d, !.ticks = @ + 1]
    /\ UNCHANGED others

\* fetch_all_repos(username, force) is called; token says whether GITHUB_TOKEN
\* is set
CallFetchAllRepos ==
    /\ github.runs < MaxRuns
    /\ github.call.at \in {"idle", "returned_cache", "returned", "exit", "raised"}
    /\ \E force \in BOOLEAN, token \in BOOLEAN :
           github' = [github EXCEPT !.runs = @ + 1,
                                    !.call = [NoCall EXCEPT !.at = "check", !.force = force,
                                                            !.token = token]]
    /\ UNCHANGED others

\* the cache test as it would be with age <= CACHE_MAX_AGE
CheckCacheInclusive ==
    LET c == github.call
        cache == github.cache
        age == github.now - cache.mtime
    IN  /\ c.at = "check"
        /\ IF ~c.force /\ cache.st # "absent"
           THEN IF age <= CACHE_MAX_AGE
                THEN SetCall([c EXCEPT !.age = age, !.results = cache.repos,
                                       !.at = "returned_cache"])
                ELSE SetCall([c EXCEPT !.age = age, !.at = "token"])
           ELSE SetCall([c EXCEPT !.at = "token"])
        /\ UNCHANGED others

\* fetch_all_repos: the cache test and the return of the cached list
CheckCache ==
    LET c == github.call
        cache == github.cache
        age == github.now - cache.mtime
    IN  /\ c.at = "check"
        /\ IF ~c.force /\ cache.st # "absent"
           THEN IF age < CACHE_MAX_AGE
                THEN SetCall([c EXCEPT !.age = age, !.results = cache.repos,
                                       !.at = "returned_cache"])
                ELSE SetCall([c EXCEPT !.age = age, !.at = "token"])
           ELSE SetCall([c EXCEPT !.at = "token"])
        /\ UNCHANGED others

\* fetch_all_repos: sys.exit(1) without GITHUB_TOKEN
GetToken ==
    LET c == github.call
    IN  /\ c.at = "token"
        /\ SetCall([c EXCEPT !.at = IF c.token THEN "fetch" ELSE "exit"])
        /\ UNCHANGED others

\* fetch_all_repos: one GET of the paginated listing: requests.get raises, or the
\* status is not 200 (sys.exit(1)), or a page is added to all_repos and the Link
\* header says whether a page follows
GetPage ==
    LET c == github.call
        asked == [c EXCEPT !.requests = @ + 1, !.pages = @ + 1]
    IN  /\ c.at = "fetch"
        /\ \/ SetCall([asked EXCEPT !.at = "raised"])
           \/ SetCall([asked EXCEPT !.at = "exit"])
           \/ \E page \in Pages, more \in BOOLEAN :
                  /\ more => asked.pages < MaxPages
                  /\ SetCall([asked EXCEPT !.all_repos = @ \o page,
                                           !.at = IF more THEN "fetch" ELSE "condense"])
        /\ UNCHANGED others

\* fetch_all_repos: the loop over all_repos (archived repositories are skipped; a
\* fork costs a contributors request and is kept or not; every kept repository
\* costs a languages request; requests.get may raise) and the sort
CondenseRepos ==
    LET c == github.call
        live == SelectSeq(c.all_repos, LAMBDA r : ~r.archived)
        forks == {i \in 1..Len(live) : live[i].fork}
    IN  /\ c.at = "condense"
        /\ \/ SetCall([c EXCEPT !.requests = @ + 1, !.at = "raised"])
           \/ \E dropped \in SUBSET forks :
                  LET kept == {i \in 1..Len(live) : i \notin dropped}
                      pick[i \in 0..Len(live)] ==
                          IF i = 0 THEN <<>>
                          ELSE IF i \in kept THEN Append(pick[i - 1], live[i])
                          ELSE pick[i - 1]
                  IN  SetCall([c EXCEPT
                                  !.requests = @ + Cardinality(forks) + Cardinality(kept),
                                  !.results = SortByPushed(pick[Len(live)]),
                                  !.at = "save"])
        /\ UNCHANGED others

\* fetch_all_repos: json.dump(results) into the cache file, and the return
SaveCache ==
    LET c == github.call
    IN  /\ c.at = "save"
        /\ github' = [github EXCEPT !.cache = CacheFile("full", github.now, c.results),
                                    !.call = [c EXCEPT !.at = "returned"]]
        /\ UNCHANGED others

CacheNext ==
    \/ Tick
    \/ CallFetchAllRepos
    \/ CheckCache
    \/ GetToken
    \/ GetPage
    \/ CondenseRepos
    \/ SaveCache

\* calls of fetch_all_repos, one after the other, while time passes
SpecCache == CacheInit /\ [][CacheNext]_vars

\* C24: when the cache test of fetch_all_repos runs, the call returns the list of
\* the cache file, with no GitHub request made and the cache file untouched,
\* exactly when force is false and the cache file exists and is less than 24
\* hours (86400 s) old; otherwise it goes on to fetch.  A call that returns after
\* fetching has made at least one request and has left in the cache file the
\* list it returns; the cache file changes in no other way.
C24_CacheDecides ==
    /\ [][LET c == github.call
              cache == github.cache
              young == cache.st = "full" /\ github.now - cache.mtime < 24 * 60 * 60
          IN  (c.at = "check" /\ github'.call.at # "check") =>
                  IF ~c.force /\ young
                  THEN /\ github'.call.at = "returned_cache"
                       /\ github'.call.results = cache.repos
                       /\ github'.call.requests = 0
                       /\ github'.cache = cache
                  ELSE github'.call.at = "token"]_vars
    /\ [](github.call.at = "returned_cache" => github.call.requests = 0)
    /\ [](github.call.at = "returned" =>
              /\ github.call.requests >= 1
              /\ github.cache.st = "full"
              /\ github.cache.repos = github.call.results)
    /\ [][github'.cache # github.cache =>
              /\ github.call.at = "save"
              /\ github'.call.at = "returned"
              /\ github'.cache = CacheFile("full", github.now, github'.call.results)]_vars

\* a call without force has returned, with no request, the list that an earlier
\* call had fetched and cached 86399 seconds before
C24_Witness ==
    /\ github.call.at = "returned_cache"
    /\ github.call.age = CACHE_MAX_AGE - 1
    /\ github.runs = 2
    /\ github.cache.mtime > 0
    /\ github.call.results = github.cache.repos
    /\ Len(github.call.results) = 2

\* the stream of thread t has ended with the complete event
Completed(t) ==
    /\ Streaming(t)
    /\ req[t].events # <<>>
    /\ req[t].events[Len(req[t].events)][1] = "complete"

\* the stream of thread t has written its CV and its gap analysis
WroteCv(t) == Streaming(t) /\ EventAt(t, <<"step_result", "generating_cv">>) # {}

\* the CV that the PDF of a completed stream was rendered from is the CV the
\* stream's own request has generated
PdfFromOwnCv == \A t \in Threads : Completed(t) => req[t].cv_md = req[t].cv_content

\* once no request is running, tailored_cv.md and cv_gaps.txt hold the CV and the
\* gap analysis of one request that has written them (if any has)
CvAndGapsTogether ==
    ((\A t \in Threads : req[t].at \in {"idle", "closed", "exited"})
     /\ (\E t \in Threads : WroteCv(t))) =>
        \E t \in Threads :
            /\ WroteCv(t)
            /\ files["tailored_cv"].text = req[t].cv_content
            /\ files["cv_gaps"].text = req[t].gap_analysis

\* C25: with two generate-all requests served at a time, the CV PDF of a
\* completed stream is rendered from the CV markdown that the same request has
\* generated, and the tailored_cv.md and cv_gaps.txt left on disk are those of
\* one and the same request.
C25_RequestsIsolated == PdfFromOwnCv /\ CvAndGapsTogether

\* no request is being served
Quiet == \A t \in Threads : req[t].at \in {"idle", "closed", "exited"}

\* C26: between requests, the tailored_cv.md on disk was written for the job
\* that job_analysis.json is now about, and a CV PDF made by generate-pdfs is
\* named after the job its CV was written for.
C26_CvMatchesAnalysis ==
    /\ (Quiet /\ files["tailored_cv"].st = "full" /\ files["job_analysis"].st = "full") =>
           files["tailored_cv"].of = files["job_analysis"].job
    /\ \A t \in Threads :
           (req[t].ep = "generate_pdfs" /\ req[t].status = 200) =>
               files["cv_pdf"].job = files["cv_pdf"].of

\* the second half of C26 alone: the PDF of generate-pdfs
C26_PdfNamedAfterItsJob ==
    \A t \in Threads :
        (req[t].ep = "generate_pdfs" /\ req[t].status = 200) =>
            files["cv_pdf"].job = files["cv_pdf"].of

====
